---- MODULE Spec2Model ----
(***************************************************************************)
(* The artwork ingestion pipeline of the Chicago Art Institute database    *)
(* builders: src/build_complete_artworks_db.py (positional parameters) and *)
(* src/build_artworks_db_fixed.py (named parameters).  One JSON document    *)
(* per file is normalised into a 105-column row and upserted into the      *)
(* SQLite table `artworks`; the connection commits every 1000 processed    *)
(* documents and once more after the last file.                            *)
(***************************************************************************)
EXTENDS Integers, Sequences, FiniteSets, TLC

(***************************************************************************)
(* Python values as json.load produces them.  A value is a record with a   *)
(* type tag t and a payload v.                                             *)
(***************************************************************************)
PyNone == [t |-> "null", v |-> 0]
JBool(b) == [t |-> "bool", v |-> b]
JInt(n) == [t |-> "int", v |-> n]
JStr(s) == [t |-> "str", v |-> s]
JList(s) == [t |-> "list", v |-> s]
JObj(f) == [t |-> "obj", v |-> f]
EmptyDict == JObj(<<>>)

\* The content of a file json.load cannot parse (invalid JSON or encoding).
Garbage == [t |-> "garbage", v |-> 0]

\* bool(x) of Python, as `x or {}` evaluates it.
Truthy(x) ==
  CASE x.t = "null" -> FALSE
    [] x.t = "bool" -> x.v
    [] x.t = "int" -> x.v # 0
    [] x.t = "str" -> x.v # ""
    [] x.t = "list" -> Len(x.v) > 0
    [] x.t = "obj" -> DOMAIN x.v # {}

\* dict.get(key): the value under key, None when the key is absent.
DictGet(d, key) == IF key \in DOMAIN d.v THEN d.v[key] ELSE PyNone

\* d.get(key, default)
DictGetOr(d, key, default) == IF key \in DOMAIN d.v THEN d.v[key] ELSE default

\* A function on 1..n, evaluated into a tuple.
Tuple(f) == f \o <<>>

\* A call that returned `value`, and a call that raised an exception.
Returned(value) == [raised |-> FALSE, value |-> value]
Raised(what) == [raised |-> TRUE, value |-> what]

\* The next statement of a try body: skipped when the one before raised.
Then(result, F(_)) == IF result.raised THEN result ELSE F(result.value)

(***************************************************************************)
(* json.dumps with its default separators (", " and ": ") and              *)
(* ensure_ascii.  The strings of the model are ASCII; of the characters    *)
(* json escapes they hold the quote, the backslash and \n, \t, \r.         *)
(***************************************************************************)
ESCAPE_DCT ==
  ("\"" :> "\\\"") @@ ("\\" :> "\\\\") @@ ("\n" :> "\\n") @@ ("\t" :> "\\t")
    @@ ("\r" :> "\\r")

CharAt(text, i) == IF i >= 1 /\ i <= Len(text) THEN SubSeq(text, i, i) ELSE ""

RECURSIVE EscapeFrom(_, _)
EscapeFrom(s, i) ==
  IF i > Len(s) THEN ""
  ELSE (IF CharAt(s, i) \in DOMAIN ESCAPE_DCT THEN ESCAPE_DCT[CharAt(s, i)]
        ELSE CharAt(s, i)) \o EscapeFrom(s, i + 1)

\* Variant: the string between quotes as it is, nothing escaped.
encode_basestring_verbatim(s) == "\"" \o s \o "\""

py_encode_basestring_ascii(s) == "\"" \o EscapeFrom(s, 1) \o "\""

RECURSIVE KeySeq(_)
KeySeq(keys) ==
  IF keys = {} THEN <<>>
  ELSE LET k == CHOOSE x \in keys : TRUE IN <<k>> \o KeySeq(keys \ {k})

RECURSIVE json_dumps(_)
RECURSIVE JoinItems(_)
RECURSIVE JoinMembers(_, _)
JoinItems(items) ==
  IF Len(items) = 0 THEN ""
  ELSE IF Len(items) = 1 THEN json_dumps(items[1])
  ELSE json_dumps(items[1]) \o ", " \o JoinItems(Tail(items))
JoinMembers(obj, keys) ==
  IF Len(keys) = 0 THEN ""
  ELSE LET member == py_encode_basestring_ascii(keys[1]) \o ": " \o json_dumps(obj[keys[1]])
       IN IF Len(keys) = 1 THEN member
          ELSE member \o ", " \o JoinMembers(obj, Tail(keys))
json_dumps(obj) ==
  CASE obj.t = "null" -> "null"
    [] obj.t = "bool" -> (IF obj.v THEN "true" ELSE "false")
    [] obj.t = "int" -> ToString(obj.v)
    [] obj.t = "str" -> py_encode_basestring_ascii(obj.v)
    [] obj.t = "list" -> "[" \o JoinItems(obj.v) \o "]"
    [] obj.t = "obj" -> "{" \o JoinMembers(obj.v, KeySeq(DOMAIN obj.v)) \o "}"

\* Python values json.load never returns and json.dumps cannot serialize
\* (TypeError): a bytes object, a set (its elements in iteration order).
PyBytes(s) == [t |-> "bytes", v |-> s]
PySet(s) == [t |-> "set", v |-> s]

RECURSIVE Serializable(_)
Serializable(obj) ==
  CASE obj.t \in {"null", "bool", "int", "str"} -> TRUE
    [] obj.t = "list" -> \A i \in 1..Len(obj.v) : Serializable(obj.v[i])
    [] obj.t = "obj" -> \A k \in DOMAIN obj.v : Serializable(obj.v[k])
    [] OTHER -> FALSE

\* str(obj) of a container is the repr of its parts.  repr of a str is in
\* single quotes, or in double quotes when it holds ' and no ".
RECURSIVE Holds(_, _, _)
Holds(s, c, i) == i <= Len(s) /\ (CharAt(s, i) = c \/ Holds(s, c, i + 1))

RECURSIVE ReprFrom(_, _, _)
ReprFrom(s, quote, i) ==
  IF i > Len(s) THEN ""
  ELSE (CASE CharAt(s, i) = "\\" -> "\\\\"
          [] CharAt(s, i) = quote -> "\\" \o quote
          [] CharAt(s, i) = "\n" -> "\\n"
          [] CharAt(s, i) = "\t" -> "\\t"
          [] CharAt(s, i) = "\r" -> "\\r"
          [] OTHER -> CharAt(s, i)) \o ReprFrom(s, quote, i + 1)

ReprQuote(s) == IF Holds(s, "'", 1) /\ ~Holds(s, "\"", 1) THEN "\"" ELSE "'"

RECURSIVE py_repr(_)
RECURSIVE ReprItems(_)
RECURSIVE ReprMembers(_, _)
ReprItems(items) ==
  IF Len(items) = 0 THEN ""
  ELSE IF Len(items) = 1 THEN py_repr(items[1])
  ELSE py_repr(items[1]) \o ", " \o ReprItems(Tail(items))
ReprMembers(obj, keys) ==
  IF Len(keys) = 0 THEN ""
  ELSE py_repr(JStr(keys[1])) \o ": " \o py_repr(obj[keys[1]])
       \o (IF Len(keys) = 1 THEN "" ELSE ", " \o ReprMembers(obj, Tail(keys)))
py_repr(obj) ==
  CASE obj.t = "null" -> "None"
    [] obj.t = "bool" -> (IF obj.v THEN "True" ELSE "False")
    [] obj.t = "int" -> ToString(obj.v)
    [] obj.t = "str" -> ReprQuote(obj.v) \o ReprFrom(obj.v, ReprQuote(obj.v), 1) \o ReprQuote(obj.v)
    [] obj.t = "bytes" -> "b" \o ReprQuote(obj.v) \o ReprFrom(obj.v, ReprQuote(obj.v), 1) \o ReprQuote(obj.v)
    [] obj.t = "list" -> "[" \o ReprItems(obj.v) \o "]"
    [] obj.t = "set" -> IF Len(obj.v) = 0 THEN "set()" ELSE "{" \o ReprItems(obj.v) \o "}"
    [] obj.t = "obj" -> "{" \o ReprMembers(obj.v, KeySeq(DOMAIN obj.v)) \o "}"

py_str(obj) == IF obj.t = "str" THEN obj.v ELSE py_repr(obj)

\* Variant: no fallback, a value json.dumps rejects is handed on as it is.
safe_json_dumps_no_fallback(obj) ==
  IF obj = PyNone THEN PyNone
  ELSE IF Serializable(obj) THEN JStr(json_dumps(obj))
  ELSE obj

\* safe_json_dumps: None stays None; json.dumps(obj), or str(obj) when
\* json.dumps raises TypeError.
safe_json_dumps(obj) ==
  IF obj = PyNone THEN PyNone
  ELSE IF Serializable(obj) THEN JStr(json_dumps(obj))
  ELSE JStr(py_str(obj))

(***************************************************************************)
(* The JSON decoder (json.load, json.loads), for texts of the model's      *)
(* alphabet: arrays, objects, strings with the escapes above, integers,    *)
(* null, true and false.                                                   *)
(***************************************************************************)
Parsed(value, next) == [ok |-> TRUE, value |-> value, next |-> next]
NoParse == [ok |-> FALSE, value |-> PyNone, next |-> 0]

WHITESPACE == {" ", "\t", "\n", "\r"}

RECURSIVE SkipSpace(_, _)
SkipSpace(text, i) ==
  IF CharAt(text, i) \in WHITESPACE THEN SkipSpace(text, i + 1) ELSE i

BACKSLASH ==
  ("\"" :> "\"") @@ ("\\" :> "\\") @@ ("/" :> "/") @@ ("n" :> "\n")
    @@ ("t" :> "\t") @@ ("r" :> "\r")

\* py_scanstring, from the character after the opening quote.
RECURSIVE scanstring(_, _, _)
scanstring(text, i, chunks) ==
  CASE CharAt(text, i) = "" -> NoParse
    [] CharAt(text, i) = "\"" -> Parsed(JStr(chunks), i + 1)
    [] CharAt(text, i) = "\\" ->
         IF CharAt(text, i + 1) \in DOMAIN BACKSLASH
         THEN scanstring(text, i + 2, chunks \o BACKSLASH[CharAt(text, i + 1)])
         ELSE NoParse
    [] CharAt(text, i) \in {"\n", "\t", "\r"} -> NoParse
    [] OTHER -> scanstring(text, i + 1, chunks \o CharAt(text, i))

DigitValue ==
  ("0" :> 0) @@ ("1" :> 1) @@ ("2" :> 2) @@ ("3" :> 3) @@ ("4" :> 4)
    @@ ("5" :> 5) @@ ("6" :> 6) @@ ("7" :> 7) @@ ("8" :> 8) @@ ("9" :> 9)

RECURSIVE ScanDigits(_, _, _)
ScanDigits(text, i, n) ==
  IF CharAt(text, i) \in DOMAIN DigitValue
  THEN ScanDigits(text, i + 1, 10 * n + DigitValue[CharAt(text, i)])
  ELSE Parsed(JInt(n), i)

Negated(r) == Parsed(JInt(0 - r.value.v), r.next)

\* NUMBER_RE, integer part: -?(0|[1-9]\d*)
ScanNumber(text, i) ==
  CASE CharAt(text, i) = "-" ->
         IF CharAt(text, i + 1) \in DOMAIN DigitValue
         THEN Negated(IF CharAt(text, i + 1) = "0" THEN Parsed(JInt(0), i + 2)
                      ELSE ScanDigits(text, i + 1, 0))
         ELSE NoParse
    [] CharAt(text, i) = "0" -> Parsed(JInt(0), i + 1)
    [] OTHER -> ScanDigits(text, i, 0)

RECURSIVE scan_once(_, _)
RECURSIVE JSONArray(_, _, _)
RECURSIVE ArrayAfterValue(_, _, _)
RECURSIVE JSONObject(_, _, _)
RECURSIVE ObjectAfterKey(_, _, _)
RECURSIVE ObjectAfterValue(_, _, _, _)

scan_once(text, i) ==
  CASE CharAt(text, i) = "\"" -> scanstring(text, i + 1, "")
    [] CharAt(text, i) = "[" ->
         IF CharAt(text, SkipSpace(text, i + 1)) = "]"
         THEN Parsed(JList(<<>>), SkipSpace(text, i + 1) + 1)
         ELSE JSONArray(text, SkipSpace(text, i + 1), <<>>)
    [] CharAt(text, i) = "{" ->
         IF CharAt(text, SkipSpace(text, i + 1)) = "}"
         THEN Parsed(JObj(<<>>), SkipSpace(text, i + 1) + 1)
         ELSE JSONObject(text, SkipSpace(text, i + 1), <<>>)
    [] CharAt(text, i) = "n" ->
         IF SubSeq(text, i, i + 3) = "null" THEN Parsed(PyNone, i + 4) ELSE NoParse
    [] CharAt(text, i) = "t" ->
         IF SubSeq(text, i, i + 3) = "true" THEN Parsed(JBool(TRUE), i + 4) ELSE NoParse
    [] CharAt(text, i) = "f" ->
         IF SubSeq(text, i, i + 4) = "false" THEN Parsed(JBool(FALSE), i + 5) ELSE NoParse
    [] CharAt(text, i) \in DOMAIN DigitValue \cup {"-"} -> ScanNumber(text, i)
    [] OTHER -> NoParse

\* JSONArray: a value, then "," and the next value, or "]".
JSONArray(text, i, values) == ArrayAfterValue(text, scan_once(text, i), values)
ArrayAfterValue(text, r, values) ==
  IF ~r.ok THEN NoParse
  ELSE CASE CharAt(text, SkipSpace(text, r.next)) = "]" ->
              Parsed(JList(Append(values, r.value)), SkipSpace(text, r.next) + 1)
         [] CharAt(text, SkipSpace(text, r.next)) = "," ->
              JSONArray(text, SkipSpace(text, SkipSpace(text, r.next) + 1),
                        Append(values, r.value))
         [] OTHER -> NoParse

\* JSONObject: "key", ":", a value, then "," and the next pair, or "}".
JSONObject(text, i, pairs) ==
  IF CharAt(text, i) = "\"" THEN ObjectAfterKey(text, scanstring(text, i + 1, ""), pairs)
  ELSE NoParse
ObjectAfterKey(text, k, pairs) ==
  IF ~k.ok \/ CharAt(text, SkipSpace(text, k.next)) # ":" THEN NoParse
  ELSE ObjectAfterValue(text, k.value.v,
         scan_once(text, SkipSpace(text, SkipSpace(text, k.next) + 1)), pairs)
ObjectAfterValue(text, key, r, pairs) ==
  IF ~r.ok THEN NoParse
  ELSE CASE CharAt(text, SkipSpace(text, r.next)) = "}" ->
              Parsed(JObj((key :> r.value) @@ pairs), SkipSpace(text, r.next) + 1)
         [] CharAt(text, SkipSpace(text, r.next)) = "," ->
              JSONObject(text, SkipSpace(text, SkipSpace(text, r.next) + 1),
                         (key :> r.value) @@ pairs)
         [] OTHER -> NoParse

\* JSONDecoder.decode: one value, then nothing but whitespace.
DecodeEnd(text, r) ==
  IF r.ok /\ SkipSpace(text, r.next) = Len(text) + 1 THEN Returned(r.value)
  ELSE Raised("JSONDecodeError")

json_loads(text) == DecodeEnd(text, scan_once(text, SkipSpace(text, 1)))

(***************************************************************************)
(* The schema, the INSERT column lists and the parameter expressions, in   *)
(* source order.                                                           *)
(***************************************************************************)
Col(name, type) == [name |-> name, type |-> type]

\* The four shapes of parameter expression the builders use.
Get(key) == [from |-> "artwork", key |-> key, dumps |-> FALSE]
Dumps(key) == [from |-> "artwork", key |-> key, dumps |-> TRUE]
Color(key) == [from |-> "color", key |-> key, dumps |-> FALSE]
Thumb(key) == [from |-> "thumbnail", key |-> key, dumps |-> FALSE]
Param(name, expr) == [name |-> name, expr |-> expr]

schema_columns ==
  <<
    Col("id", "INTEGER"), Col("api_model", "TEXT"), Col("api_link", "TEXT"),
    Col("main_reference_number", "TEXT"), Col("title", "TEXT"), Col("alt_titles", "TEXT"),
    Col("is_boosted", "BOOLEAN"), Col("has_not_been_viewed_much", "BOOLEAN"), Col("boost_rank", "INTEGER"),
    Col("date_start", "INTEGER"), Col("date_end", "INTEGER"), Col("date_display", "TEXT"),
    Col("date_qualifier_title", "TEXT"), Col("date_qualifier_id", "INTEGER"), Col("artist_display", "TEXT"),
    Col("artist_id", "INTEGER"), Col("artist_title", "TEXT"), Col("alt_artist_ids", "TEXT"),
    Col("artist_ids", "TEXT"), Col("artist_titles", "TEXT"), Col("place_of_origin", "TEXT"),
    Col("latitude", "REAL"), Col("longitude", "REAL"), Col("latlon", "TEXT"),
    Col("description", "TEXT"), Col("short_description", "TEXT"), Col("dimensions", "TEXT"),
    Col("dimensions_detail", "TEXT"), Col("medium_display", "TEXT"), Col("inscriptions", "TEXT"),
    Col("credit_line", "TEXT"), Col("catalogue_display", "TEXT"), Col("publication_history", "TEXT"),
    Col("exhibition_history", "TEXT"), Col("provenance_text", "TEXT"), Col("edition", "TEXT"),
    Col("publishing_verification_level", "TEXT"), Col("internal_department_id", "INTEGER"), Col("fiscal_year", "INTEGER"),
    Col("fiscal_year_deaccession", "INTEGER"), Col("is_public_domain", "BOOLEAN"), Col("is_zoomable", "BOOLEAN"),
    Col("max_zoom_window_size", "INTEGER"), Col("copyright_notice", "TEXT"), Col("has_multimedia_resources", "BOOLEAN"),
    Col("has_educational_resources", "BOOLEAN"), Col("has_advanced_imaging", "BOOLEAN"), Col("colorfulness", "REAL"),
    Col("color_h", "INTEGER"), Col("color_l", "INTEGER"), Col("color_s", "INTEGER"),
    Col("color_percentage", "REAL"), Col("color_population", "INTEGER"), Col("is_on_view", "BOOLEAN"),
    Col("on_loan_display", "TEXT"), Col("gallery_title", "TEXT"), Col("gallery_id", "INTEGER"),
    Col("nomisma_id", "TEXT"), Col("artwork_type_title", "TEXT"), Col("artwork_type_id", "INTEGER"),
    Col("department_title", "TEXT"), Col("department_id", "TEXT"), Col("category_ids", "TEXT"),
    Col("category_titles", "TEXT"), Col("term_titles", "TEXT"), Col("style_id", "INTEGER"),
    Col("style_title", "TEXT"), Col("alt_style_ids", "TEXT"), Col("style_ids", "TEXT"),
    Col("style_titles", "TEXT"), Col("classification_id", "TEXT"), Col("classification_title", "TEXT"),
    Col("alt_classification_ids", "TEXT"), Col("classification_ids", "TEXT"), Col("classification_titles", "TEXT"),
    Col("subject_id", "INTEGER"), Col("alt_subject_ids", "TEXT"), Col("subject_ids", "TEXT"),
    Col("subject_titles", "TEXT"), Col("material_id", "TEXT"), Col("alt_material_ids", "TEXT"),
    Col("material_ids", "TEXT"), Col("material_titles", "TEXT"), Col("technique_id", "INTEGER"),
    Col("alt_technique_ids", "TEXT"), Col("technique_ids", "TEXT"), Col("technique_titles", "TEXT"),
    Col("theme_titles", "TEXT"), Col("image_id", "TEXT"), Col("alt_image_ids", "TEXT"),
    Col("thumbnail_lqip", "TEXT"), Col("thumbnail_width", "INTEGER"), Col("thumbnail_height", "INTEGER"),
    Col("thumbnail_alt_text", "TEXT"), Col("document_ids", "TEXT"), Col("sound_ids", "TEXT"),
    Col("video_ids", "TEXT"), Col("text_ids", "TEXT"), Col("section_ids", "TEXT"),
    Col("section_titles", "TEXT"), Col("site_ids", "TEXT"), Col("suggest_autocomplete_all", "TEXT"),
    Col("source_updated_at", "TEXT"), Col("updated_at", "TEXT"), Col("timestamp", "TEXT")
  >>

json_text_columns ==
  {
    "alt_titles", "alt_artist_ids", "artist_ids", "artist_titles",
    "dimensions_detail", "category_ids", "category_titles", "term_titles",
    "alt_style_ids", "style_ids", "style_titles", "alt_classification_ids",
    "classification_ids", "classification_titles", "alt_subject_ids", "subject_ids",
    "subject_titles", "alt_material_ids", "material_ids", "material_titles",
    "alt_technique_ids", "technique_ids", "technique_titles", "theme_titles",
    "alt_image_ids", "document_ids", "sound_ids", "video_ids",
    "text_ids", "section_ids", "section_titles", "site_ids",
    "suggest_autocomplete_all"
  }

insert_columns ==
  <<
    "id", "api_model", "api_link", "main_reference_number",
    "title", "alt_titles", "is_boosted", "has_not_been_viewed_much",
    "boost_rank", "date_start", "date_end", "date_display",
    "date_qualifier_title", "date_qualifier_id", "artist_display", "artist_id",
    "artist_title", "alt_artist_ids", "artist_ids", "artist_titles",
    "place_of_origin", "latitude", "longitude", "latlon",
    "description", "short_description", "dimensions", "dimensions_detail",
    "medium_display", "inscriptions", "credit_line", "catalogue_display",
    "publication_history", "exhibition_history", "provenance_text", "edition",
    "publishing_verification_level", "internal_department_id", "fiscal_year", "fiscal_year_deaccession",
    "is_public_domain", "is_zoomable", "max_zoom_window_size", "copyright_notice",
    "has_multimedia_resources", "has_educational_resources", "has_advanced_imaging", "colorfulness",
    "color_h", "color_l", "color_s", "color_percentage",
    "color_population", "is_on_view", "on_loan_display", "gallery_title",
    "gallery_id", "nomisma_id", "artwork_type_title", "artwork_type_id",
    "department_title", "department_id", "category_ids", "category_titles",
    "term_titles", "style_id", "style_title", "alt_style_ids",
    "style_ids", "style_titles", "classification_id", "classification_title",
    "alt_classification_ids", "classification_ids", "classification_titles", "subject_id",
    "alt_subject_ids", "subject_ids", "subject_titles", "material_id",
    "alt_material_ids", "material_ids", "material_titles", "technique_id",
    "alt_technique_ids", "technique_ids", "technique_titles", "theme_titles",
    "image_id", "alt_image_ids", "thumbnail_lqip", "thumbnail_width",
    "thumbnail_height", "thumbnail_alt_text", "document_ids", "sound_ids",
    "video_ids", "text_ids", "section_ids", "section_titles",
    "site_ids", "suggest_autocomplete_all", "source_updated_at", "updated_at",
    "timestamp"
  >>

artwork_tuple_sources ==
  <<
    Get("id"), Get("api_model"), Get("api_link"),
    Get("main_reference_number"), Get("title"), Dumps("alt_titles"),
    Get("is_boosted"), Get("has_not_been_viewed_much"), Get("boost_rank"),
    Get("date_start"), Get("date_end"), Get("date_display"),
    Get("date_qualifier_title"), Get("date_qualifier_id"), Get("artist_display"),
    Get("artist_id"), Get("artist_title"), Dumps("alt_artist_ids"),
    Dumps("artist_ids"), Dumps("artist_titles"), Get("place_of_origin"),
    Get("latitude"), Get("longitude"), Get("latlon"),
    Get("description"), Get("short_description"), Get("dimensions"),
    Dumps("dimensions_detail"), Get("medium_display"), Get("inscriptions"),
    Get("credit_line"), Get("catalogue_display"), Get("publication_history"),
    Get("exhibition_history"), Get("provenance_text"), Get("edition"),
    Get("publishing_verification_level"), Get("internal_department_id"), Get("fiscal_year"),
    Get("fiscal_year_deaccession"), Get("is_public_domain"), Get("is_zoomable"),
    Get("max_zoom_window_size"), Get("copyright_notice"), Get("has_multimedia_resources"),
    Get("has_educational_resources"), Get("has_advanced_imaging"), Get("colorfulness"),
    Color("h"), Color("l"), Color("s"),
    Color("percentage"), Color("population"), Get("is_on_view"),
    Get("on_loan_display"), Get("gallery_title"), Get("gallery_id"),
    Get("nomisma_id"), Get("artwork_type_title"), Get("artwork_type_id"),
    Get("department_title"), Get("department_id"), Dumps("category_ids"),
    Dumps("category_titles"), Dumps("term_titles"), Get("style_id"),
    Get("style_title"), Dumps("alt_style_ids"), Dumps("style_ids"),
    Dumps("style_titles"), Get("classification_id"), Get("classification_title"),
    Dumps("alt_classification_ids"), Dumps("classification_ids"), Dumps("classification_titles"),
    Get("subject_id"), Dumps("alt_subject_ids"), Dumps("subject_ids"),
    Dumps("subject_titles"), Get("material_id"), Dumps("alt_material_ids"),
    Dumps("material_ids"), Dumps("material_titles"), Get("technique_id"),
    Dumps("alt_technique_ids"), Dumps("technique_ids"), Dumps("technique_titles"),
    Dumps("theme_titles"), Get("image_id"), Dumps("alt_image_ids"),
    Thumb("lqip"), Thumb("width"), Thumb("height"),
    Thumb("alt_text"), Dumps("document_ids"), Dumps("sound_ids"),
    Dumps("video_ids"), Dumps("text_ids"), Dumps("section_ids"),
    Dumps("section_titles"), Dumps("site_ids"), Dumps("suggest_autocomplete_all"),
    Get("source_updated_at"), Get("updated_at"), Get("timestamp")
  >>

fixed_insert_columns ==
  <<
    "id", "api_model", "api_link", "main_reference_number",
    "title", "alt_titles", "is_boosted", "has_not_been_viewed_much",
    "boost_rank", "date_start", "date_end", "date_display",
    "date_qualifier_title", "date_qualifier_id", "artist_display", "artist_id",
    "artist_title", "alt_artist_ids", "artist_ids", "artist_titles",
    "place_of_origin", "latitude", "longitude", "latlon",
    "description", "short_description", "dimensions", "dimensions_detail",
    "medium_display", "inscriptions", "credit_line", "catalogue_display",
    "publication_history", "exhibition_history", "provenance_text", "edition",
    "publishing_verification_level", "internal_department_id", "fiscal_year", "fiscal_year_deaccession",
    "is_public_domain", "is_zoomable", "max_zoom_window_size", "copyright_notice",
    "has_multimedia_resources", "has_educational_resources", "has_advanced_imaging", "colorfulness",
    "color_h", "color_l", "color_s", "color_percentage",
    "color_population", "is_on_view", "on_loan_display", "gallery_title",
    "gallery_id", "nomisma_id", "artwork_type_title", "artwork_type_id",
    "department_title", "department_id", "category_ids", "category_titles",
    "term_titles", "style_id", "style_title", "alt_style_ids",
    "style_ids", "style_titles", "classification_id", "classification_title",
    "alt_classification_ids", "classification_ids", "classification_titles", "subject_id",
    "alt_subject_ids", "subject_ids", "subject_titles", "material_id",
    "alt_material_ids", "material_ids", "material_titles", "technique_id",
    "alt_technique_ids", "technique_ids", "technique_titles", "theme_titles",
    "image_id", "alt_image_ids", "thumbnail_lqip", "thumbnail_width",
    "thumbnail_height", "thumbnail_alt_text", "document_ids", "sound_ids",
    "video_ids", "text_ids", "section_ids", "section_titles",
    "site_ids", "suggest_autocomplete_all", "source_updated_at", "updated_at",
    "timestamp"
  >>

fixed_placeholders ==
  <<
    "id", "api_model", "api_link", "main_reference_number",
    "title", "alt_titles", "is_boosted", "has_not_been_viewed_much",
    "boost_rank", "date_start", "date_end", "date_display",
    "date_qualifier_title", "date_qualifier_id", "artist_display", "artist_id",
    "artist_title", "alt_artist_ids", "artist_ids", "artist_titles",
    "place_of_origin", "latitude", "longitude", "latlon",
    "description", "short_description", "dimensions", "dimensions_detail",
    "medium_display", "inscriptions", "credit_line", "catalogue_display",
    "publication_history", "exhibition_history", "provenance_text", "edition",
    "publishing_verification_level", "internal_department_id", "fiscal_year", "fiscal_year_deaccession",
    "is_public_domain", "is_zoomable", "max_zoom_window_size", "copyright_notice",
    "has_multimedia_resources", "has_educational_resources", "has_advanced_imaging", "colorfulness",
    "color_h", "color_l", "color_s", "color_percentage",
    "color_population", "is_on_view", "on_loan_display", "gallery_title",
    "gallery_id", "nomisma_id", "artwork_type_title", "artwork_type_id",
    "department_title", "department_id", "category_ids", "category_titles",
    "term_titles", "style_id", "style_title", "alt_style_ids",
    "style_ids", "style_titles", "classification_id", "classification_title",
    "alt_classification_ids", "classification_ids", "classification_titles", "subject_id",
    "alt_subject_ids", "subject_ids", "subject_titles", "material_id",
    "alt_material_ids", "material_ids", "material_titles", "technique_id",
    "alt_technique_ids", "technique_ids", "technique_titles", "theme_titles",
    "image_id", "alt_image_ids", "thumbnail_lqip", "thumbnail_width",
    "thumbnail_height", "thumbnail_alt_text", "document_ids", "sound_ids",
    "video_ids", "text_ids", "section_ids", "section_titles",
    "site_ids", "suggest_autocomplete_all", "source_updated_at", "updated_at",
    "timestamp"
  >>

fixed_parameters ==
  <<
    Param("id", Get("id")), Param("api_model", Get("api_model")),
    Param("api_link", Get("api_link")), Param("main_reference_number", Get("main_reference_number")),
    Param("title", Get("title")), Param("alt_titles", Dumps("alt_titles")),
    Param("is_boosted", Get("is_boosted")), Param("has_not_been_viewed_much", Get("has_not_been_viewed_much")),
    Param("boost_rank", Get("boost_rank")), Param("date_start", Get("date_start")),
    Param("date_end", Get("date_end")), Param("date_display", Get("date_display")),
    Param("date_qualifier_title", Get("date_qualifier_title")), Param("date_qualifier_id", Get("date_qualifier_id")),
    Param("artist_display", Get("artist_display")), Param("artist_id", Get("artist_id")),
    Param("artist_title", Get("artist_title")), Param("alt_artist_ids", Dumps("alt_artist_ids")),
    Param("artist_ids", Dumps("artist_ids")), Param("artist_titles", Dumps("artist_titles")),
    Param("place_of_origin", Get("place_of_origin")), Param("latitude", Get("latitude")),
    Param("longitude", Get("longitude")), Param("latlon", Get("latlon")),
    Param("description", Get("description")), Param("short_description", Get("short_description")),
    Param("dimensions", Get("dimensions")), Param("dimensions_detail", Dumps("dimensions_detail")),
    Param("medium_display", Get("medium_display")), Param("inscriptions", Get("inscriptions")),
    Param("credit_line", Get("credit_line")), Param("catalogue_display", Get("catalogue_display")),
    Param("publication_history", Get("publication_history")), Param("exhibition_history", Get("exhibition_history")),
    Param("provenance_text", Get("provenance_text")), Param("edition", Get("edition")),
    Param("publishing_verification_level", Get("publishing_verification_level")), Param("internal_department_id", Get("internal_department_id")),
    Param("fiscal_year", Get("fiscal_year")), Param("fiscal_year_deaccession", Get("fiscal_year_deaccession")),
    Param("is_public_domain", Get("is_public_domain")), Param("is_zoomable", Get("is_zoomable")),
    Param("max_zoom_window_size", Get("max_zoom_window_size")), Param("copyright_notice", Get("copyright_notice")),
    Param("has_multimedia_resources", Get("has_multimedia_resources")), Param("has_educational_resources", Get("has_educational_resources")),
    Param("has_advanced_imaging", Get("has_advanced_imaging")), Param("colorfulness", Get("colorfulness")),
    Param("color_h", Color("h")), Param("color_l", Color("l")),
    Param("color_s", Color("s")), Param("color_percentage", Color("percentage")),
    Param("color_population", Color("population")), Param("is_on_view", Get("is_on_view")),
    Param("on_loan_display", Get("on_loan_display")), Param("gallery_title", Get("gallery_title")),
    Param("gallery_id", Get("gallery_id")), Param("nomisma_id", Get("nomisma_id")),
    Param("artwork_type_title", Get("artwork_type_title")), Param("artwork_type_id", Get("artwork_type_id")),
    Param("department_title", Get("department_title")), Param("department_id", Get("department_id")),
    Param("category_ids", Dumps("category_ids")), Param("category_titles", Dumps("category_titles")),
    Param("term_titles", Dumps("term_titles")), Param("style_id", Get("style_id")),
    Param("style_title", Get("style_title")), Param("alt_style_ids", Dumps("alt_style_ids")),
    Param("style_ids", Dumps("style_ids")), Param("style_titles", Dumps("style_titles")),
    Param("classification_id", Get("classification_id")), Param("classification_title", Get("classification_title")),
    Param("alt_classification_ids", Dumps("alt_classification_ids")), Param("classification_ids", Dumps("classification_ids")),
    Param("classification_titles", Dumps("classification_titles")), Param("subject_id", Get("subject_id")),
    Param("alt_subject_ids", Dumps("alt_subject_ids")), Param("subject_ids", Dumps("subject_ids")),
    Param("subject_titles", Dumps("subject_titles")), Param("material_id", Get("material_id")),
    Param("alt_material_ids", Dumps("alt_material_ids")), Param("material_ids", Dumps("material_ids")),
    Param("material_titles", Dumps("material_titles")), Param("technique_id", Get("technique_id")),
    Param("alt_technique_ids", Dumps("alt_technique_ids")), Param("technique_ids", Dumps("technique_ids")),
    Param("technique_titles", Dumps("technique_titles")), Param("theme_titles", Dumps("theme_titles")),
    Param("image_id", Get("image_id")), Param("alt_image_ids", Dumps("alt_image_ids")),
    Param("thumbnail_lqip", Thumb("lqip")), Param("thumbnail_width", Thumb("width")),
    Param("thumbnail_height", Thumb("height")), Param("thumbnail_alt_text", Thumb("alt_text")),
    Param("document_ids", Dumps("document_ids")), Param("sound_ids", Dumps("sound_ids")),
    Param("video_ids", Dumps("video_ids")), Param("text_ids", Dumps("text_ids")),
    Param("section_ids", Dumps("section_ids")), Param("section_titles", Dumps("section_titles")),
    Param("site_ids", Dumps("site_ids")), Param("suggest_autocomplete_all", Dumps("suggest_autocomplete_all")),
    Param("source_updated_at", Get("source_updated_at")), Param("updated_at", Get("updated_at")),
    Param("timestamp", Get("timestamp"))
  >>

\* `["?"] * 105`: the number of positional placeholders of insert_sql.
NumPlaceholders == 105

(***************************************************************************)
(* Normalisation: one document to the parameters of the INSERT statement.  *)
(***************************************************************************)
\* json.load(f): raises on a file that is not JSON.
json_load(file) ==
  IF file.t = "garbage" THEN Raised("JSONDecodeError") ELSE Returned(file)

\* Variant: artwork_json.get(key), without the fallback to an empty dict.
NestedOrNone(artwork_json, key) == DictGet(artwork_json, key)

\* artwork_json.get(key, {}) or {}
NestedOrEmpty(artwork_json, key) ==
  LET got == DictGet(artwork_json, key)
  IN IF Truthy(got) THEN got ELSE EmptyDict

\* The object a parameter expression calls .get on.
Receiver(expr, artwork_json, thumbnail, color) ==
  CASE expr.from = "artwork" -> artwork_json
    [] expr.from = "thumbnail" -> thumbnail
    [] expr.from = "color" -> color

\* Variant: x.get(key) or None, which drops a present falsy value.
EvalParameterOrNone(expr, artwork_json, thumbnail, color) ==
  IF Truthy(DictGet(Receiver(expr, artwork_json, thumbnail, color), expr.key))
  THEN (IF expr.dumps
        THEN safe_json_dumps(DictGet(Receiver(expr, artwork_json, thumbnail, color), expr.key))
        ELSE DictGet(Receiver(expr, artwork_json, thumbnail, color), expr.key))
  ELSE PyNone

\* One parameter expression: x.get(key), or safe_json_dumps(x.get(key)).
EvalParameter(expr, artwork_json, thumbnail, color) ==
  LET got == DictGet(Receiver(expr, artwork_json, thumbnail, color), expr.key)
  IN IF expr.dumps THEN safe_json_dumps(got) ELSE got

\* Some expression calls .get on a value that is no dict (AttributeError).
GetOnNonDict(exprs, artwork_json, thumbnail, color) ==
  \E i \in 1..Len(exprs) :
    Receiver(exprs[i], artwork_json, thumbnail, color).t # "obj"

\* extract_artwork_data of the complete builder: the 105-tuple, in the order
\* the expressions are written.
ArtworkTuple(artwork_json, thumbnail, color) ==
  IF GetOnNonDict(artwork_tuple_sources, artwork_json, thumbnail, color)
  THEN Raised("AttributeError")
  ELSE Returned(Tuple([i \in 1..Len(artwork_tuple_sources) |->
         EvalParameter(artwork_tuple_sources[i], artwork_json, thumbnail, color)]))

extract_artwork_data(artwork_json) ==
  IF artwork_json.t # "obj" THEN Raised("AttributeError")
  ELSE ArtworkTuple(artwork_json, NestedOrEmpty(artwork_json, "thumbnail"),
                    NestedOrEmpty(artwork_json, "color"))

\* The dict of named parameters the fixed builder passes to execute; a key
\* written twice in a dict display keeps its last value.
FixedParameterNames == {fixed_parameters[i].name : i \in 1..Len(fixed_parameters)}

LastParameter(name) ==
  LET at == {i \in 1..Len(fixed_parameters) : fixed_parameters[i].name = name}
  IN fixed_parameters[CHOOSE i \in at : \A j \in at : j <= i].expr

FixedParameterExprs ==
  [i \in 1..Len(fixed_parameters) |-> fixed_parameters[i].expr]

NamedParameters(artwork_data, thumbnail, color) ==
  IF GetOnNonDict(FixedParameterExprs, artwork_data, thumbnail, color)
  THEN Raised("AttributeError")
  ELSE Returned([name \in FixedParameterNames |->
         EvalParameter(LastParameter(name), artwork_data, thumbnail, color)])

\* Variant: thumbnail and color are taken as they are, without `or {}`.
fixed_parameter_dict_plain(artwork_data) ==
  IF artwork_data.t # "obj" THEN Raised("AttributeError")
  ELSE NamedParameters(artwork_data, DictGet(artwork_data, "thumbnail"),
                       DictGet(artwork_data, "color"))

fixed_parameter_dict(artwork_data) ==
  IF artwork_data.t # "obj" THEN Raised("AttributeError")
  ELSE NamedParameters(artwork_data, NestedOrEmpty(artwork_data, "thumbnail"),
                       NestedOrEmpty(artwork_data, "color"))

(***************************************************************************)
(* The store: SQLite values, parameter binding, column affinity and        *)
(* INSERT OR REPLACE on the table `artworks` (a set of rows, each a        *)
(* sequence of values in schema order).                                    *)
(***************************************************************************)
SqlNull == [t |-> "NULL", v |-> 0]
SqlInteger(n) == [t |-> "INTEGER", v |-> n]
SqlText(s) == [t |-> "TEXT", v |-> s]
SqlReal(n) == [t |-> "REAL", v |-> n]

\* sqlite3 binds None, bool, int and str; a list or a dict is not supported.
Bindable(x) == x.t \in {"null", "bool", "int", "str"}

bind_parameter(x) ==
  CASE x.t = "null" -> SqlNull
    [] x.t = "bool" -> SqlInteger(IF x.v THEN 1 ELSE 0)
    [] x.t = "int" -> SqlInteger(x.v)
    [] x.t = "str" -> SqlText(x.v)

\* Text that reads as an integer, for the integers the model's texts spell.
MaxNumericText == 50
TextIsInteger(s) == \E n \in 0..MaxNumericText : ToString(n) = s
TextToInteger(s) == CHOOSE n \in 0..MaxNumericText : ToString(n) = s

\* The affinity SQLite derives from a declared column type.
ColumnAffinity(type) ==
  CASE type = "INTEGER" -> "INTEGER"
    [] type = "TEXT" -> "TEXT"
    [] type = "REAL" -> "REAL"
    [] OTHER -> "NUMERIC"

apply_affinity(affinity, x) ==
  CASE affinity = "TEXT" /\ x.t = "INTEGER" -> SqlText(ToString(x.v))
    [] affinity \in {"INTEGER", "NUMERIC"} /\ x.t = "TEXT" /\ TextIsInteger(x.v) ->
         SqlInteger(TextToInteger(x.v))
    [] affinity = "REAL" /\ x.t = "INTEGER" -> SqlReal(x.v)
    [] affinity = "REAL" /\ x.t = "TEXT" /\ TextIsInteger(x.v) ->
         SqlReal(TextToInteger(x.v))
    [] OTHER -> x

\* `id INTEGER PRIMARY KEY`: the position of the key column in a row.
KeyIndex == CHOOSE j \in 1..Len(schema_columns) : schema_columns[j].name = "id"

SchemaNames == {schema_columns[j].name : j \in 1..Len(schema_columns)}

\* The value an INSERT gives to the column `name`: the one bound at the
\* column's position in the statement's column list, NULL for a column the
\* list leaves out.
ColumnValue(columns, values, name) ==
  LET at == {i \in 1..Len(columns) : columns[i] = name}
  IN IF at = {} THEN SqlNull ELSE values[CHOOSE i \in at : TRUE]

NewRow(columns, values) ==
  Tuple([j \in 1..Len(schema_columns) |->
     apply_affinity(ColumnAffinity(schema_columns[j].type),
                    ColumnValue(columns, values, schema_columns[j].name))])

SetMax(S) == CHOOSE m \in S : \A x \in S : x <= m

\* The rowid SQLite gives to a row inserted with a NULL key: one more than
\* the largest key of the table.
NextRowid(table) ==
  IF table = {} THEN 1 ELSE SetMax({r[KeyIndex].v : r \in table}) + 1

\* Variant: an upsert that keeps the old value of every column the new row
\* leaves NULL (a field-level merge).
merge_row(table, row) ==
  {r \in table : r[KeyIndex] # row[KeyIndex]}
    \cup {IF \E old \in table : old[KeyIndex] = row[KeyIndex]
           THEN [j \in DOMAIN row |->
                  IF row[j] = SqlNull
                  THEN (CHOOSE old \in table : old[KeyIndex] = row[KeyIndex])[j]
                  ELSE row[j]]
           ELSE row}

\* Variant: every row of the table gives way to the new one.
replace_all_rows(table, row) == {row}

\* REPLACE conflict resolution: the rows with the new row's key are deleted
\* before the new row is inserted.
replace_row(table, row) ==
  {r \in table : r[KeyIndex] # row[KeyIndex]} \cup {row}

\* conn.execute("INSERT OR REPLACE INTO artworks (columns) VALUES (...)",
\* values), up to the row to write: the row in schema order, or the exception
\* raised.  `values` are the Python values in the order of the statement's
\* placeholders.
BindAll(values) == Tuple([i \in 1..Len(values) |-> bind_parameter(values[i])])

\* The key of an INTEGER PRIMARY KEY row is an integer or NULL.
CheckKey(row) ==
  IF row[KeyIndex].t \notin {"NULL", "INTEGER"}
  THEN Raised("IntegrityError")
  ELSE Returned(row)

prepare_row(columns, values) ==
  IF \/ Len(columns) # Len(values)
     \/ \E i \in 1..Len(columns) : columns[i] \notin SchemaNames
     \/ \E i, j \in 1..Len(columns) : i # j /\ columns[i] = columns[j]
  THEN Raised("OperationalError")
  ELSE IF \E i \in 1..Len(values) : ~Bindable(values[i])
  THEN Raised("InterfaceError")
  ELSE CheckKey(NewRow(columns, BindAll(values)))

\* The write itself: a NULL key takes the next rowid, and the row replaces
\* the row of the same key.
insert_or_replace(table, row) ==
  LET id == IF row[KeyIndex].t = "NULL" THEN NextRowid(table) ELSE row[KeyIndex].v
  IN replace_row(table, [row EXCEPT ![KeyIndex] = SqlInteger(id)])

(***************************************************************************)
(* The body of the try statement of process_artworks, for one file.        *)
(* `parameters` is what the builder hands to execute, in the order of the  *)
(* statement's placeholders: the tuple of the complete builder, the named  *)
(* values of the fixed builder looked up placeholder by placeholder.       *)
(***************************************************************************)
\* `VALUES (?, ..., ?)` takes exactly NumPlaceholders values.
CheckBindings(artwork_tuple) ==
  IF Len(artwork_tuple) # NumPlaceholders
  THEN Raised("ProgrammingError")
  ELSE Returned(artwork_tuple)

complete_parameters(file) ==
  Then(Then(json_load(file), extract_artwork_data), CheckBindings)

\* `VALUES (:id, ..., :timestamp)` looks each placeholder up in the dict.
InPlaceholderOrder(named) ==
  IF \E i \in 1..Len(fixed_placeholders) : fixed_placeholders[i] \notin DOMAIN named
  THEN Raised("ProgrammingError")
  ELSE Returned(Tuple([i \in 1..Len(fixed_placeholders) |->
         named[fixed_placeholders[i]]]))

fixed_parameters_in_order(file) ==
  Then(Then(json_load(file), fixed_parameter_dict), InPlaceholderOrder)

Parameters(b, file) ==
  IF b = "complete" THEN complete_parameters(file)
  ELSE fixed_parameters_in_order(file)

StatementColumns(b) ==
  IF b = "complete" THEN insert_columns ELSE fixed_insert_columns

(***************************************************************************)
(* The documents and directory listings the model runs on.                 *)
(***************************************************************************)
\* Listings of up to MaxFiles files, and MaxRuns runs of a builder.
MaxFiles == 2
MaxRuns == 2

\* `processed % 1000 == 0`: the progress and commit cadence.
ProgressEvery == 1000

\* `if errors <= 5`: the errors the fixed builder logs in detail.
ErrorDetailLimit == 5

\* {"id": 42, "title": "Study in Blue", "color": {"h": 210, "l": 50, "s": 80},
\*  "category_ids": ["1", "7"]}
Doc42 ==
  JObj([id |-> JInt(42), title |-> JStr("Study in Blue"),
        color |-> JObj([h |-> JInt(210), l |-> JInt(50), s |-> JInt(80)]),
        category_ids |-> JList(<<JStr("1"), JStr("7")>>)])

\* The same artwork with a new title and nothing else.
Doc42Retitled == JObj([id |-> JInt(42), title |-> JStr("Study in Blue II")])

\* A document without an id.
DocNoId == JObj([title |-> JStr("Untitled")])

\* Present but falsy values, a null color, an integer in a TEXT column.
DocFalsy ==
  JObj([id |-> JInt(1), title |-> JStr(""), is_boosted |-> JBool(FALSE),
        boost_rank |-> JInt(0), alt_titles |-> JList(<<>>),
        date_display |-> JInt(19), color |-> PyNone,
        thumbnail |-> JObj([lqip |-> JStr(""), width |-> JInt(0),
                            height |-> JInt(3), alt_text |-> JStr("a\"b")]),
        term_titles |-> JList(<<JStr("a\"b"), JInt(7), JInt(7)>>)])

\* Nested fields that are no objects.
DocThumbnailText == JObj([id |-> JInt(7), thumbnail |-> JStr("abc")])
DocColorList == JObj([id |-> JInt(7), color |-> JList(<<JInt(5)>>)])

\* A list in a scalar column: sqlite3 cannot bind it.
DocTitleList == JObj([id |-> JInt(8), title |-> JList(<<JStr("x")>>)])

\* A key that is no integer, with falsy nested fields that are no objects.
DocTextId == JObj([id |-> JStr("abc"), color |-> JInt(0), thumbnail |-> JStr("")])

\* An artwork with every column the query selects.
DocCatalogued ==
  JObj([id |-> JInt(27), title |-> JStr("Water Lilies"),
        artist_display |-> JStr("Claude Monet"), artist_title |-> JStr("Monet"),
        date_display |-> JStr("1906"), medium_display |-> JStr("Oil on canvas"),
        image_id |-> JStr("3c27b499")])

\* Artworks with descriptions in their documents: both texts, an empty
\* description, and a number for a description.
DocDescribed ==
  JObj([id |-> JInt(42), title |-> JStr("Study in Blue"),
        description |-> JStr("An oil sketch."), short_description |-> JStr("Sketch.")])
DocHalfDescribed ==
  JObj([id |-> JInt(27), title |-> JStr("Water Lilies"),
        description |-> JStr(""), short_description |-> JStr("Pond.")])
DocNumbered == JObj([id |-> JInt(1), description |-> JInt(0)])

\* A JSON document that is no mapping.
DocArray == JList(<<JInt(1), JInt(2)>>)

Docs ==
  {Garbage, DocArray, Doc42, Doc42Retitled, DocNoId, DocFalsy,
   DocThumbnailText, DocColorList, DocTitleList, DocTextId}

\* A listing is a sequence of runs of files with equal content:
\* [doc |-> content, copies |-> number of consecutive files holding it].
File(doc) == [doc |-> doc, copies |-> 1]
Copies(doc, n) == [doc |-> doc, copies |-> n]

SmallListings ==
  UNION {[1..n -> {File(d) : d \in Docs}] : n \in 0..MaxFiles}

\* Directories large enough for the periodic commit: ProgressEvery files of
\* one artwork, after nothing, a document without id or an unreadable file,
\* and before nothing, one more document, or a document that is stored and
\* one whose row the store rejects.
BulkListings ==
  {head \o <<Copies(Doc42, ProgressEvery)>> \o tail :
     head \in {<<>>, <<File(DocNoId)>>, <<File(Garbage)>>},
     tail \in {<<>>, <<File(Doc42Retitled)>>, <<File(DocFalsy), File(DocTextId)>>}}

\* A directory with more failing files than are logged in detail.
FailingListings ==
  {<<Copies(Garbage, ErrorDetailLimit + 1), File(Doc42)>>}

Listings == SmallListings \cup BulkListings \cup FailingListings

Builders == {"complete", "fixed"}

\* The document with `value` under `key`.
WithField(doc, key, value) ==
  JObj([k \in DOMAIN doc.v \cup {key} |-> IF k = key THEN value ELSE doc.v[k]])

\* A well-formed nested object for `color` or `thumbnail`.
SampleNested(key) ==
  IF key = "color" THEN JObj([h |-> JInt(1), population |-> JInt(2)])
  ELSE JObj([width |-> JInt(1), alt_text |-> JStr("x")])

NestedKeys == {"color", "thumbnail"}

\* The documents of the model, and each mapping among them with a
\* well-formed nested object in the place of its own.
PreparedDocs ==
  Docs \cup {DocCatalogued, DocDescribed, DocHalfDescribed, DocNumbered}
    \cup {WithField(d, key, SampleNested(key)) :
              d \in {x \in Docs : x.t = "obj"}, key \in NestedKeys}

\* What the try body does with a file up to the write, for each builder and
\* each document of the model: the parameters and the row depend on the file
\* alone.
PrepareFor(b, values) == prepare_row(StatementColumns(b), values)

Prepared ==
  [b \in Builders |-> [file \in PreparedDocs |->
     [parameters |-> Parameters(b, file),
      row |-> Then(Parameters(b, file), LAMBDA values : PrepareFor(b, values))]]]

\* The table after the try body, or the exception that reaches `except`.
try_body(b, table, file) ==
  Then(Prepared[b][file].row, LAMBDA row : Returned(insert_or_replace(table, row)))

RECURSIVE TotalFiles(_)
TotalFiles(listing) ==
  IF listing = <<>> THEN 0 ELSE Head(listing).copies + TotalFiles(Tail(listing))

(***************************************************************************)
(* State.                                                                  *)
(***************************************************************************)
VARIABLES
  env,            \* whether json_dir and the database file can be opened
  builder,        \* "complete" or "fixed": the script that is run
  artwork_files,  \* list(self.json_dir.glob("*.json")), in listing order
  pc,             \* "idle", "loop", "committed", "done", "crashed", "aborted"
  run,            \* builds started so far
  group,          \* index in artwork_files of the run of files being read
  copy,           \* files of that run already iterated
  processed,      \* the counter `processed`
  errors,         \* the counter `errors`
  logged,         \* detailed error lines written by logger.error
  commits,        \* conn.commit() calls made by process_artworks in this run
  uncommitted,    \* rows upserted since the last commit
  conn,           \* the table as the open connection sees it
  disk,           \* the committed table, which survives the process
  last,           \* the most recent loop iteration
  committed_files,\* files iterated when the latest commit of this run was made
  first_table,    \* the committed table when the first build completed
  kept_store,     \* the current build started on the store of the one before
  crashed,        \* some build of this behaviour was terminated
  codec,          \* one value on its way through safe_json_dumps and back
  enrich,         \* one run of build_all_collections
  cover,          \* one run of test_description_coverage
  describe,       \* one collection file on its way through add_descriptions
  sampler,        \* one run of the department sampler
  session         \* the wallpaper folder and one run of a wallpaper manager

builder_vars ==
  <<env, builder, artwork_files, pc, run, group, copy, processed, errors, logged,
    commits, uncommitted, conn, disk, last, committed_files, first_table,
    kept_store, crashed>>

\* What a run of a builder leaves alone.
others == <<codec, enrich, cover, describe, sampler, session>>

\* What each of the other scripts leaves alone.
codec_rest == <<builder_vars, enrich, cover, describe, sampler, session>>
enrich_rest == <<builder_vars, codec, cover, describe, sampler, session>>
cover_rest == <<builder_vars, codec, enrich, describe, sampler, session>>
describe_rest == <<builder_vars, codec, enrich, cover, sampler, session>>
sampler_rest == <<builder_vars, codec, enrich, cover, describe, session>>
session_rest == <<builder_vars, codec, enrich, cover, describe, sampler>>

vars == <<builder_vars, others>>

NoIteration ==
  [outcome |-> "none", file |-> Garbage, before |-> {}]

\* No value is on its way.
CodecOff ==
  [stage |-> "off", value |-> PyNone, text |-> PyNone, stored |-> SqlNull,
   decoded |-> Returned(PyNone)]

\* No manifest is being built.
EnrichOff ==
  [stage |-> "off", manifests |-> <<>>, position |-> 1, manifest |-> <<>>,
   artwork_ids |-> <<>>, store |-> {}, images |-> {}, partial |-> {},
   artwork_metadata |-> <<>>, i |-> 1, successful_artworks |-> <<>>,
   failed_downloads |-> <<>>, updated_manifest |-> <<>>,
   built_collections |-> <<>>, total_artworks |-> 0, index |-> <<>>]

\* No coverage test is running.
CoverOff ==
  [stage |-> "off", exists |-> FALSE, collection_files |-> <<>>, file |-> 1,
   artworks |-> <<>>, artwork |-> 1, total_artworks |-> 0,
   total_with_descriptions |-> 0, total_empty_descriptions |-> 0,
   collections_report |-> 0, result |-> FALSE]

\* No collection file is being described.

\* The sampler is not running.
DescribeOff ==
  [stage |-> "off", db_exists |-> FALSE, store |-> {}, files |-> <<>>,
   before |-> <<>>, position |-> 1, artwork_ids |-> <<>>, descriptions |-> <<>>,
   updated_count |-> 0, total_updated |-> 0]
SamplerOff ==
  [stage |-> "off", department |-> 1, object_ids |-> 0, i |-> 1, downloaded |-> 0,
   total_downloaded |-> 0, requests |-> 0, since |-> 0, gap |-> 0]

\* No wallpaper manager is running.
SessionOff ==
  [stage |-> "off", manager |-> "met", mode |-> "fetch", size |-> 0, start_size |-> 0,
   artworks |-> <<>>, count |-> 0, current |-> 0, actual_count |-> 0, downloaded |-> 0,
   checked |-> 0, requests |-> 0, result |-> 0, calls |-> 0, run_count |-> 0,
   runs |-> <<>>]

\* Every script but the one named is at rest.
OffExcept(script) ==
  /\ script = "codec" \/ codec = CodecOff
  /\ script = "enrich" \/ enrich = EnrichOff
  /\ script = "cover" \/ cover = CoverOff
  /\ script = "describe" \/ describe = DescribeOff
  /\ script = "sampler" \/ sampler = SamplerOff
  /\ script = "session" \/ session = SessionOff

\* No builder has run.
NotStarted ==
  /\ pc = "idle"
  /\ run = 0
  /\ group = 1
  /\ copy = 0
  /\ processed = 0
  /\ errors = 0
  /\ logged = 0
  /\ commits = 0
  /\ uncommitted = 0
  /\ conn = {}
  /\ disk = {}
  /\ last = NoIteration
  /\ committed_files = 0
  /\ first_table = {}
  /\ kept_store = FALSE
  /\ crashed = FALSE

\* Path.glob yields nothing for a directory that cannot be opened.
EnvOk == [json_dir |-> TRUE, db |-> TRUE]

Environments == [json_dir : BOOLEAN, db : BOOLEAN]

Init ==
  /\ builder \in Builders
  /\ env \in Environments
  /\ artwork_files \in (IF env = EnvOk THEN Listings ELSE {<<>>})
  /\ NotStarted
  /\ OffExcept("none")

(***************************************************************************)
(* Operations.                                                             *)
(***************************************************************************)
\* main() and build_database() up to the loop of process_artworks.  The
\* fixed builder's main removes an existing database file first; a call of
\* build_database alone (entry = "build_database") opens the file as it is.
\* CREATE TABLE IF NOT EXISTS leaves an existing table alone.  A database
\* file that cannot be opened makes sqlite3.connect (or the first PRAGMA)
\* raise before the try statement: the run ends with that exception.
RemovesDatabase(b, entry) == b = "fixed" /\ entry = "main"

StartBuild(entry) ==
  /\ pc \in {"idle", "done", "crashed", "aborted"}
  /\ run < MaxRuns
  /\ (run = 0 => entry = "main")
  /\ run' = run + 1
  /\ disk' = IF RemovesDatabase(builder, entry) THEN {} ELSE disk
  /\ conn' = disk'
  /\ kept_store' = (run > 0 /\ ~RemovesDatabase(builder, entry))
  /\ pc' = IF env.db THEN "loop" ELSE "aborted"
  /\ group' = 1
  /\ copy' = 0
  /\ processed' = 0
  /\ errors' = 0
  /\ logged' = 0
  /\ commits' = 0
  /\ uncommitted' = 0
  /\ last' = NoIteration
  /\ committed_files' = 0
  /\ UNCHANGED <<env, builder, artwork_files, first_table, crashed>>
  /\ UNCHANGED others

\* Variant: a commit at every other progress report only.
progress_due_alternate(count) == count % (2 * ProgressEvery) = 0

\* `if processed % 1000 == 0`
progress_due(count) == count % ProgressEvery = 0

\* `if errors <= 5` in the fixed builder; the complete builder logs each one.
logs_detail(b, count) == b = "complete" \/ count <= ErrorDetailLimit

\* Variant: an iteration whose except branch rolls the transaction back.
ProcessFileRollingBack ==
  /\ pc = "loop"
  /\ group <= Len(artwork_files)
  /\ LET file == artwork_files[group].doc
         result == try_body(builder, conn, file)
     IN /\ last' = [outcome |-> IF result.raised THEN "error" ELSE "processed",
                    file |-> file,
                    before |-> conn]
        /\ IF result.raised
           THEN /\ errors' = errors + 1
                /\ logged' = IF logs_detail(builder, errors + 1) THEN logged + 1 ELSE logged
                /\ conn' = disk
                /\ uncommitted' = 0
                /\ UNCHANGED <<processed, disk, commits, committed_files>>
           ELSE /\ conn' = result.value
                /\ processed' = processed + 1
                /\ IF progress_due(processed + 1)
                   THEN /\ disk' = result.value
                        /\ commits' = commits + 1
                        /\ uncommitted' = 0
                        /\ committed_files' = processed + errors + 1
                   ELSE /\ uncommitted' = uncommitted + 1
                        /\ UNCHANGED <<disk, commits, committed_files>>
                /\ UNCHANGED <<errors, logged>>
  /\ IF copy + 1 < artwork_files[group].copies
     THEN copy' = copy + 1 /\ group' = group
     ELSE copy' = 0 /\ group' = group + 1
  /\ UNCHANGED <<env, builder, artwork_files, pc, run, first_table, kept_store, crashed>>
  /\ UNCHANGED others

\* One iteration of `for json_file in artwork_files`.
ProcessFile ==
  /\ pc = "loop"
  /\ group <= Len(artwork_files)
  /\ LET file == artwork_files[group].doc
         result == try_body(builder, conn, file)
     IN /\ last' = [outcome |-> IF result.raised THEN "error" ELSE "processed",
                    file |-> file,
                    before |-> conn]
        /\ IF result.raised
           THEN /\ errors' = errors + 1
                /\ logged' = IF logs_detail(builder, errors + 1) THEN logged + 1 ELSE logged
                /\ UNCHANGED <<processed, conn, disk, commits, uncommitted,
                               committed_files>>
           ELSE /\ conn' = result.value
                /\ processed' = processed + 1
                /\ IF progress_due(processed + 1)
                   THEN /\ disk' = result.value
                        /\ commits' = commits + 1
                        /\ uncommitted' = 0
                        /\ committed_files' = processed + errors + 1
                   ELSE /\ uncommitted' = uncommitted + 1
                        /\ UNCHANGED <<disk, commits, committed_files>>
                /\ UNCHANGED <<errors, logged>>
  /\ IF copy + 1 < artwork_files[group].copies
     THEN copy' = copy + 1 /\ group' = group
     ELSE copy' = 0 /\ group' = group + 1
  /\ UNCHANGED <<env, builder, artwork_files, pc, run, first_table, kept_store, crashed>>
  /\ UNCHANGED others

\* Variant: the loop is left before the last entry of the listing.
FinalCommitEarly ==
  /\ pc = "loop"
  /\ group >= Len(artwork_files)
  /\ disk' = conn
  /\ commits' = commits + 1
  /\ uncommitted' = 0
  /\ committed_files' = processed + errors
  /\ pc' = "committed"
  /\ UNCHANGED <<env, builder, artwork_files, run, group, copy, processed, errors,
                 logged, conn, last, first_table, kept_store, crashed>>
  /\ UNCHANGED others

\* The `# Final commit` after the loop, and the final report.
FinalCommit ==
  /\ pc = "loop"
  /\ group > Len(artwork_files)
  /\ disk' = conn
  /\ commits' = commits + 1
  /\ uncommitted' = 0
  /\ committed_files' = processed + errors
  /\ pc' = "committed"
  /\ UNCHANGED <<env, builder, artwork_files, run, group, copy, processed, errors,
                 logged, conn, last, first_table, kept_store, crashed>>
  /\ UNCHANGED others

\* The rest of build_database: ANALYZE, commit, the statistics, close.
FinishBuild ==
  /\ pc = "committed"
  /\ pc' = "done"
  /\ disk' = conn
  /\ first_table' = IF run = 1 THEN conn ELSE first_table
  /\ UNCHANGED <<env, builder, artwork_files, run, group, copy, processed, errors,
                 logged, commits, uncommitted, conn, last, committed_files,
                 kept_store, crashed>>
  /\ UNCHANGED others

\* The process is terminated: its memory, the connection and the open
\* transaction are gone, the committed table stays.
Terminate ==
  /\ pc \in {"loop", "committed"}
  /\ pc' = "crashed"
  /\ conn' = disk
  /\ crashed' = TRUE
  /\ group' = 1
  /\ copy' = 0
  /\ processed' = 0
  /\ errors' = 0
  /\ logged' = 0
  /\ commits' = 0
  /\ uncommitted' = 0
  /\ last' = NoIteration
  /\ UNCHANGED <<env, builder, artwork_files, run, disk, committed_files,
                 first_table, kept_store>>
  /\ UNCHANGED others

Next ==
  \/ \E entry \in {"main", "build_database"} : StartBuild(entry)
  \/ ProcessFile
  \/ FinalCommit
  \/ FinishBuild
  \/ Terminate

Spec == Init /\ [][Next]_vars

\* A builder that nothing terminates: a sequential process, so an iteration
\* that can run does run, and so does the statement after the loop.
RunNext ==
  \/ \E entry \in {"main", "build_database"} : StartBuild(entry)
  \/ ProcessFile
  \/ FinalCommit
  \/ FinishBuild

RunSpec ==
  Init /\ [][RunNext]_vars /\ WF_vars(ProcessFile) /\ WF_vars(FinalCommit)

(***************************************************************************)
(* One multi-valued field on its way into a TEXT column and back:          *)
(* safe_json_dumps, the binding of its result, and the decoder applied to  *)
(* the stored text.                                                        *)
(***************************************************************************)
MaxSequenceLen == 3

SequenceElements ==
  {JStr("a"), JStr(""), JStr("a\"b"), JStr("x\\y"), JInt(0), JInt(7), JInt(-12)}

SequenceValues ==
  {JList(Tuple(f)) : f \in UNION {[1..n -> SequenceElements] : n \in 0..MaxSequenceLen}}

UnserializableValues ==
  {PySet(<<JInt(1), JInt(2)>>), PySet(<<>>), PyBytes("ab"),
   JList(<<JInt(1), PySet(<<JInt(2)>>)>>), JObj([a |-> PyBytes("x")])}

CodecValues == SequenceValues \cup UnserializableValues \cup {PyNone}

CodecInit ==
  /\ env = EnvOk
  /\ builder = "complete"
  /\ artwork_files = <<>>
  /\ NotStarted
  /\ codec \in {[CodecOff EXCEPT !.stage = "value", !.value = v] : v \in CodecValues}
  /\ OffExcept("codec")

\* self.safe_json_dumps(artwork_json.get(key))
Serialize ==
  /\ codec.stage = "value"
  /\ codec' = [codec EXCEPT !.stage = "text", !.text = safe_json_dumps(codec.value)]
  /\ UNCHANGED codec_rest

\* The result as a parameter of execute, for a column declared TEXT.
BindText ==
  /\ codec.stage = "text"
  /\ codec' = IF Bindable(codec.text)
              THEN [codec EXCEPT !.stage = "stored",
                                 !.stored = apply_affinity("TEXT", bind_parameter(codec.text))]
              ELSE [codec EXCEPT !.stage = "rejected"]
  /\ UNCHANGED codec_rest

\* A reader decodes the text of the column.
Deserialize ==
  /\ codec.stage = "stored"
  /\ codec.stored.t = "TEXT"
  /\ codec' = [codec EXCEPT !.stage = "decoded", !.decoded = json_loads(codec.stored.v)]
  /\ UNCHANGED codec_rest

CodecNext == Serialize \/ BindText \/ Deserialize

CodecSpec == CodecInit /\ [][CodecNext]_vars

(***************************************************************************)
(* Enrichment: build_github_collections.py reads the store a builder left  *)
(* and resolves the artwork ids of one collection manifest.                *)
(***************************************************************************)
TableOr(table, result) == IF result.raised THEN table ELSE result.value

\* The table after the first n files of a listing, iterated in order.
RECURSIVE TableAfter(_, _, _, _)
TableAfter(b, table, listing, n) ==
  IF n = 0 \/ listing = <<>> THEN table
  ELSE TableAfter(b,
         TableOr(table, try_body(b, table, Head(listing).doc)),
         IF Head(listing).copies > 1
         THEN <<Copies(Head(listing).doc, Head(listing).copies - 1)>> \o Tail(listing)
         ELSE Tail(listing),
         n - 1)

\* The Python value sqlite3 gives for a stored value.
from_sql(x) ==
  CASE x.t = "NULL" -> PyNone
    [] x.t = "INTEGER" -> JInt(x.v)
    [] x.t = "TEXT" -> JStr(x.v)
    [] OTHER -> [t |-> "float", v |-> x.v]

\* SELECT id, title, artist_display, date_display, medium_display, image_id
SelectIndex ==
  [name \in {"id", "title", "artist_display", "date_display", "medium_display",
             "image_id"} |->
     CHOOSE j \in 1..Len(schema_columns) : schema_columns[j].name = name]

\* `id IN (?, ...)`: the key column compares with a bound value after the
\* numeric affinity of the column is applied to it; NULL equals nothing.
id_matches(key, parameter) ==
  /\ parameter.t # "NULL"
  /\ apply_affinity("NUMERIC", parameter) = key

\* f"https://www.artic.edu/iiif/2/{image_id}/full/843,/0/default.jpg"
image_url_of(image_id) ==
  JStr("https://www.artic.edu/iiif/2/" \o py_str(image_id) \o "/full/843,/0/default.jpg")

\* Variant: the artist is read from the column artist_title.
artwork_entry_artist_title(row) ==
  [id |-> from_sql(row[SelectIndex["id"]]),
   title |-> from_sql(row[SelectIndex["title"]]),
   artist |-> from_sql(row[CHOOSE j \in 1..Len(schema_columns) :
                              schema_columns[j].name = "artist_title"]),
   date |-> from_sql(row[SelectIndex["date_display"]]),
   medium |-> from_sql(row[SelectIndex["medium_display"]]),
   image_id |-> from_sql(row[SelectIndex["image_id"]]),
   image_url |-> image_url_of(from_sql(row[SelectIndex["image_id"]]))]

\* artworks[artwork_id] = {...}: the entry made of one row of the result.
artwork_entry(row) ==
  [id |-> from_sql(row[SelectIndex["id"]]),
   title |-> from_sql(row[SelectIndex["title"]]),
   artist |-> from_sql(row[SelectIndex["artist_display"]]),
   date |-> from_sql(row[SelectIndex["date_display"]]),
   medium |-> from_sql(row[SelectIndex["medium_display"]]),
   image_id |-> from_sql(row[SelectIndex["image_id"]]),
   image_url |-> image_url_of(from_sql(row[SelectIndex["image_id"]]))]

\* The rows the query selects.
SelectedRows(table, artwork_ids) ==
  {r \in table : \E k \in 1..Len(artwork_ids) :
     id_matches(r[KeyIndex], bind_parameter(artwork_ids[k]))}

\* get_artwork_metadata(artwork_ids): the dict of entries keyed by the id of
\* each selected row, or the exception of a parameter sqlite3 cannot bind.
get_artwork_metadata(table, artwork_ids) ==
  IF \E k \in 1..Len(artwork_ids) : ~Bindable(artwork_ids[k])
  THEN Raised("ProgrammingError")
  ELSE Returned(
         [key \in {from_sql(r[KeyIndex]) : r \in SelectedRows(table, artwork_ids)} |->
            artwork_entry(CHOOSE r \in SelectedRows(table, artwork_ids) :
                            from_sql(r[KeyIndex]) = key)])

\* What the network does to one download: the image is written, the server
\* answers with another status or cannot be reached, or the transfer breaks
\* after the file was opened for writing.
Downloads == {"written", "refused", "interrupted"}

\* download_artwork_image: True for a file that exists already or a finished
\* download.
download_artwork_image(images, artwork, download) ==
  artwork.id \in images \/ download = "written"

\* The files in images_dir after the call.
ImagesAfter(images, artwork, download) ==
  IF artwork.id \in images \/ download = "refused"
  THEN images
  ELSE images \cup {artwork.id}

\* The files in images_dir that hold a part of an image only: the transfer
\* broke after open(filepath, 'wb').
PartialAfter(partial, images, artwork, download) ==
  IF artwork.id \notin images /\ download = "interrupted"
  THEN partial \cup {artwork.id}
  ELSE partial

\* f"https://raw.githubusercontent.com/.../images/{artwork_id}.jpg"
github_image_url(artwork_id) ==
  JStr("https://raw.githubusercontent.com/USER/ArtWall-Collections/main/images/"
       \o py_str(artwork_id) \o ".jpg")

WithGithubUrl(artwork, artwork_id) ==
  [k \in DOMAIN artwork \cup {"github_image_url"} |->
     IF k = "github_image_url" THEN github_image_url(artwork_id) ELSE artwork[k]]

\* failed_downloads after the iteration for artwork_id.
failed_after(failed, artwork_id, found, downloaded) ==
  IF found /\ downloaded THEN failed ELSE Append(failed, artwork_id)

\* Variant: a resolved artwork is put in front of the list.
successful_before(successful, artwork_id, metadata, downloaded) ==
  IF artwork_id \in DOMAIN metadata /\ downloaded
  THEN <<WithGithubUrl(metadata[artwork_id], artwork_id)>> \o successful
  ELSE successful

\* successful_artworks after the iteration for artwork_id.
successful_after(successful, artwork_id, metadata, downloaded) ==
  IF artwork_id \in DOMAIN metadata /\ downloaded
  THEN Append(successful, WithGithubUrl(metadata[artwork_id], artwork_id))
  ELSE successful

\* Stores a builder leaves: empty, three artworks, and one whose first row
\* has a generated key.
StoreTables ==
  {{},
   TableAfter("complete", {}, <<File(Doc42), File(DocFalsy), File(DocCatalogued)>>, 3),
   TableAfter("fixed", {}, <<File(DocNoId), File(DocCatalogued)>>, 2)}

MaxManifestLen == 3

\* Ids a manifest refers to; 999 is in no store.
ManifestIds == {JInt(1), JInt(27), JInt(42), JInt(999)}

\* A collection file as load_collection_manifests reads it.
Manifest(collection_id, ids) ==
  [collection_id |-> collection_id, title |-> "Golden Age",
   description |-> "Paintings of the decade", date_range |-> "1850-1859",
   artwork_count |-> Len(ids), artwork_ids |-> ids]

\* A collection file without the key collection_id.
ManifestWithoutId(ids) ==
  [title |-> "Untitled", description |-> "", date_range |-> "",
   artwork_count |-> Len(ids), artwork_ids |-> ids]

Manifests ==
  {Manifest("golden_age_1850s", Tuple(f)) :
     f \in UNION {[1..n -> ManifestIds] : n \in 0..MaxManifestLen}}

\* The collection files that follow the first one.
FollowingManifests ==
  {Manifest("golden_age_1860s", <<JInt(42)>>),
   Manifest("golden_age_1860s", <<JInt(27), JInt(999)>>),
   ManifestWithoutId(<<JInt(42)>>)}

\* The lists load_collection_manifests returns.
ManifestLists ==
  {<<>>}
    \cup {<<m>> : m \in Manifests}
    \cup {<<m, n>> : m \in Manifests \cup {ManifestWithoutId(<<JInt(27)>>)},
                     n \in FollowingManifests}

EnrichInit ==
  /\ env = EnvOk
  /\ builder = "complete"
  /\ artwork_files = <<>>
  /\ NotStarted
  /\ OffExcept("enrich")
  /\ enrich \in {[EnrichOff EXCEPT !.stage = "start", !.manifests = list,
                                   !.store = table, !.images = images] :
                   list \in ManifestLists, table \in StoreTables,
                   images \in {{}, {JInt(42)}}}

\* {**base, **new}
dict_update(base, new) ==
  [k \in DOMAIN base \cup DOMAIN new |-> IF k \in DOMAIN new THEN new[k] ELSE base[k]]

\* create_output_structure removes the output directory and makes it anew;
\* build_all_collections returns at once when no manifest was loaded.
LoadManifests ==
  /\ enrich.stage = "start"
  /\ enrich' = [enrich EXCEPT
                  !.stage = IF enrich.manifests = <<>> THEN "returned" ELSE "pending",
                  !.images = {}]
  /\ UNCHANGED enrich_rest

\* `for manifest in manifests`: build_collection is entered;
\* manifest['collection_id'] raises KeyError for a manifest without the key.
EnterCollection ==
  /\ enrich.stage = "pending"
  /\ enrich.position <= Len(enrich.manifests)
  /\ enrich' =
       [enrich EXCEPT
          !.stage = IF "collection_id" \in DOMAIN enrich.manifests[enrich.position]
                    THEN "manifest" ELSE "invalid",
          !.position = enrich.position + 1,
          !.manifest = enrich.manifests[enrich.position],
          !.artwork_ids = enrich.manifests[enrich.position].artwork_ids,
          !.artwork_metadata = <<>>,
          !.i = 1,
          !.successful_artworks = <<>>,
          !.failed_downloads = <<>>,
          !.updated_manifest = <<>>]
  /\ UNCHANGED enrich_rest

\* artwork_metadata = self.get_artwork_metadata(manifest['artwork_ids'])
GetMetadata ==
  /\ enrich.stage = "manifest"
  /\ enrich' =
       IF get_artwork_metadata(enrich.store, enrich.artwork_ids).raised
       THEN [enrich EXCEPT !.stage = "raised"]
       ELSE [enrich EXCEPT
               !.stage = "loop",
               !.artwork_metadata =
                  get_artwork_metadata(enrich.store, enrich.artwork_ids).value]
  /\ UNCHANGED enrich_rest

\* The id the loop is at, and whether its download succeeds.
ArtworkId == enrich.artwork_ids[enrich.i]
Found == ArtworkId \in DOMAIN enrich.artwork_metadata
Downloaded(download) ==
  Found /\ download_artwork_image(enrich.images, enrich.artwork_metadata[ArtworkId],
                                  download)

\* One iteration of `for i, artwork_id in enumerate(manifest['artwork_ids'], 1)`.
VisitArtwork(download) ==
  /\ enrich.stage = "loop"
  /\ enrich.i <= Len(enrich.artwork_ids)
  /\ enrich' =
       [enrich EXCEPT
          !.i = enrich.i + 1,
          !.images = IF Found
                     THEN ImagesAfter(enrich.images,
                                      enrich.artwork_metadata[ArtworkId], download)
                     ELSE enrich.images,
          !.partial = IF Found
                      THEN PartialAfter(enrich.partial, enrich.images,
                                        enrich.artwork_metadata[ArtworkId], download)
                      ELSE enrich.partial,
          !.successful_artworks =
             successful_after(enrich.successful_artworks, ArtworkId,
                              enrich.artwork_metadata, Downloaded(download)),
          !.failed_downloads =
             failed_after(enrich.failed_downloads, ArtworkId, Found,
                          Downloaded(download))]
  /\ UNCHANGED enrich_rest

\* updated_manifest = {**manifest, 'artwork_count': ..., ...}
WriteManifest ==
  /\ enrich.stage = "loop"
  /\ enrich.i > Len(enrich.artwork_ids)
  /\ enrich' =
       [enrich EXCEPT
          !.stage = "built",
          !.updated_manifest =
             dict_update(enrich.manifest,
               [artwork_count |-> Len(enrich.successful_artworks),
                artworks |-> enrich.successful_artworks,
                failed_downloads |-> enrich.failed_downloads,
                github_ready |-> TRUE,
                image_base_url |->
                  "https://raw.githubusercontent.com/USER/ArtWall-Collections/main/images/"])]
  /\ UNCHANGED enrich_rest

\* built_collections.append(built_collection);
\* total_artworks += built_collection['artwork_count']
CollectCollection ==
  /\ enrich.stage = "built"
  /\ enrich' =
       [enrich EXCEPT
          !.stage = "pending",
          !.built_collections = Append(enrich.built_collections, enrich.updated_manifest),
          !.total_artworks = enrich.total_artworks + enrich.updated_manifest.artwork_count]
  /\ UNCHANGED enrich_rest

\* Variant: an exception ends the loop over the manifests.
SkipRemainingCollections ==
  /\ enrich.stage \in {"raised", "invalid"}
  /\ enrich' = [enrich EXCEPT !.stage = "pending",
                               !.position = Len(enrich.manifests) + 1]
  /\ UNCHANGED enrich_rest

\* `except Exception as e`: the collection is reported and left out.
SkipCollection ==
  /\ enrich.stage \in {"raised", "invalid"}
  /\ enrich' = [enrich EXCEPT !.stage = "pending"]
  /\ UNCHANGED enrich_rest

RECURSIVE SumCounts(_)
SumCounts(collections) ==
  IF collections = <<>> THEN 0
  ELSE Head(collections).artwork_count + SumCounts(Tail(collections))

\* col['artworks'][:4] if col['artworks'] else []
Thumbnails(artworks) == SubSeq(artworks, 1, IF Len(artworks) < 4 THEN Len(artworks) ELSE 4)

\* create_master_index(collections)
create_master_index(collections) ==
  [collections |->
     [k \in 1..Len(collections) |->
        [id |-> collections[k].collection_id,
         title |-> collections[k].title,
         description |-> collections[k].description,
         date_range |-> collections[k].date_range,
         artwork_count |-> collections[k].artwork_count,
         thumbnail_artworks |-> Thumbnails(collections[k].artworks)]],
   total_collections |-> Len(collections),
   total_artworks |-> SumCounts(collections),
   created_date |-> "2025-01-21",
   version |-> "1.0"]

\* index = self.create_master_index(built_collections), after the loop.
CreateIndex ==
  /\ enrich.stage = "pending"
  /\ enrich.position > Len(enrich.manifests)
  /\ enrich' =
       [enrich EXCEPT
          !.stage = "indexed",
          !.index = create_master_index(enrich.built_collections)]
  /\ UNCHANGED enrich_rest

EnrichNext ==
  \/ LoadManifests
  \/ EnterCollection
  \/ GetMetadata
  \/ \E download \in Downloads : VisitArtwork(download)
  \/ WriteManifest
  \/ CollectCollection
  \/ SkipCollection
  \/ CreateIndex

EnrichSpec == EnrichInit /\ [][EnrichNext]_vars

(***************************************************************************)
(* test_description_coverage.py: the scan of the collection files of the   *)
(* application for artworks without a description.                         *)
(***************************************************************************)
\* The characters str.strip() removes, among those the model's texts hold.
StripWhitespace == {" ", "\t", "\n", "\r", "\f"}

\* description.strip() is truthy: some character is no whitespace.
RECURSIVE StripTruthy(_, _)
StripTruthy(s, i) ==
  IF i > Len(s) THEN FALSE
  ELSE CharAt(s, i) \notin StripWhitespace \/ StripTruthy(s, i + 1)

\* Variant: a text of one character or more counts as a description.
has_description_unstripped(artwork) ==
  IF artwork.t # "obj" THEN Raised("AttributeError")
  ELSE IF ~Truthy(DictGetOr(artwork, "description", JStr(""))) THEN Returned(FALSE)
  ELSE IF DictGetOr(artwork, "description", JStr("")).t # "str"
  THEN Raised("AttributeError")
  ELSE Returned(TRUE)

\* description = artwork.get('description', '');
\* `description and description.strip()`, or the AttributeError of a value
\* without get or strip.
has_description(artwork) ==
  IF artwork.t # "obj" THEN Raised("AttributeError")
  ELSE IF ~Truthy(DictGetOr(artwork, "description", JStr(""))) THEN Returned(FALSE)
  ELSE IF DictGetOr(artwork, "description", JStr("")).t # "str"
  THEN Raised("AttributeError")
  ELSE Returned(StripTruthy(DictGetOr(artwork, "description", JStr("")).v, 1))

\* Artworks of a collection file: described, blank, empty, without the key,
\* and with a number for a description.
CoverageArtworks ==
  {JObj([id |-> JInt(42), title |-> JStr("Study in Blue"),
         description |-> JStr("An oil sketch.")]),
   JObj([id |-> JInt(27), title |-> JStr("Water Lilies"), description |-> JStr(" \n")]),
   JObj([id |-> JInt(1), title |-> JStr("Untitled"), description |-> JStr("")]),
   JObj([id |-> JInt(7), title |-> JStr("Portrait")]),
   JObj([id |-> JInt(8), title |-> JStr("Still Life"), description |-> JInt(5)])}

MaxArtworks == 2

\* What json.load makes of a collection file: a collection of up to
\* MaxArtworks artworks, a collection without the key artworks, a JSON list,
\* or Garbage for a file that cannot be read or parsed.
CollectionFiles ==
  {JObj([collection_id |-> JStr("golden_age_1850s"), artworks |-> JList(Tuple(f))]) :
     f \in UNION {[1..n -> CoverageArtworks] : n \in 0..MaxArtworks}}
    \cup {JObj([collection_id |-> JStr("golden_age_1850s")]), DocArray, Garbage}

\* glob.glob(f"{collections_dir}*/collection.json"), sorted: no file, one
\* or two.
CoverageListings ==
  {<<>>} \cup {<<f>> : f \in CollectionFiles}
         \cup {<<f, g>> : f \in CollectionFiles, g \in CollectionFiles}

CoverInit ==
  /\ env = EnvOk
  /\ builder = "complete"
  /\ artwork_files = <<>>
  /\ NotStarted
  /\ OffExcept("cover")
  /\ cover \in {[CoverOff EXCEPT !.stage = "start"]}
                \cup {[CoverOff EXCEPT !.stage = "start", !.exists = TRUE,
                                       !.collection_files = files] :
                        files \in CoverageListings}

\* Lines 15-32: the directory and the list of files are looked at.
StartCoverage ==
  /\ cover.stage = "start"
  /\ cover' = IF ~cover.exists \/ cover.collection_files = <<>>
              THEN [cover EXCEPT !.stage = "done", !.result = FALSE]
              ELSE [cover EXCEPT !.stage = "file"]
  /\ UNCHANGED cover_rest

\* The file the loop is at.
CollectionFile == cover.collection_files[cover.file]

\* json.load(f) and collection_data.get('artworks', []): an exception goes
\* to `except Exception` and `continue`.
OpenCollection ==
  /\ cover.stage = "file"
  /\ cover.file <= Len(cover.collection_files)
  /\ cover' =
       IF json_load(CollectionFile).raised \/ CollectionFile.t # "obj"
       THEN [cover EXCEPT !.file = cover.file + 1]
       ELSE [cover EXCEPT
               !.stage = "artworks",
               !.artworks = DictGetOr(CollectionFile, "artworks", JList(<<>>)).v,
               !.artwork = 1]
  /\ UNCHANGED cover_rest

\* One iteration of `for artwork in artworks`; an exception leaves the file.
CheckArtwork ==
  /\ cover.stage = "artworks"
  /\ cover.artwork <= Len(cover.artworks)
  /\ cover' =
       IF has_description(cover.artworks[cover.artwork]).raised
       THEN [cover EXCEPT
               !.stage = "file",
               !.file = cover.file + 1,
               !.total_artworks = cover.total_artworks + 1]
       ELSE IF has_description(cover.artworks[cover.artwork]).value
       THEN [cover EXCEPT
               !.artwork = cover.artwork + 1,
               !.total_artworks = cover.total_artworks + 1,
               !.total_with_descriptions = cover.total_with_descriptions + 1]
       ELSE [cover EXCEPT
               !.artwork = cover.artwork + 1,
               !.total_artworks = cover.total_artworks + 1,
               !.total_empty_descriptions = cover.total_empty_descriptions + 1]
  /\ UNCHANGED cover_rest

\* collections_report.append(...) and the summary of the collection.
ReportCollection ==
  /\ cover.stage = "artworks"
  /\ cover.artwork > Len(cover.artworks)
  /\ cover' = [cover EXCEPT
                 !.stage = "file",
                 !.file = cover.file + 1,
                 !.collections_report = cover.collections_report + 1]
  /\ UNCHANGED cover_rest

\* Lines 85-113: `if total_empty_descriptions == 0: return True`.
ReportCoverage ==
  /\ cover.stage = "file"
  /\ cover.file > Len(cover.collection_files)
  /\ cover' = [cover EXCEPT !.stage = "done",
                            !.result = (cover.total_empty_descriptions = 0)]
  /\ UNCHANGED cover_rest

CoverNext ==
  \/ StartCoverage
  \/ OpenCollection
  \/ CheckArtwork
  \/ ReportCollection
  \/ ReportCoverage

CoverSpec == CoverInit /\ [][CoverNext]_vars

(***************************************************************************)
(* add_descriptions_to_collections.py: the descriptions of the store are   *)
(* written into the collection files of the application.                   *)
(***************************************************************************)
\* str(artwork_id) between the parentheses of `WHERE id IN (...)`: the value
\* SQLite reads there, or its error for text that is no literal (None, a
\* word, the empty text).
sql_term(artwork_id) ==
  CASE artwork_id.t = "int" -> Returned(SqlInteger(artwork_id.v))
    [] artwork_id.t = "bool" -> Returned(SqlInteger(IF artwork_id.v THEN 1 ELSE 0))
    [] artwork_id.t = "str" /\ TextIsInteger(artwork_id.v) ->
         Returned(SqlInteger(TextToInteger(artwork_id.v)))
    [] OTHER -> Raised("OperationalError")

\* The rows `SELECT id, description, short_description ... WHERE id IN (...)`
\* selects.
DescribedRows(table, artwork_ids) ==
  {r \in table : \E k \in 1..Len(artwork_ids) :
     ~sql_term(artwork_ids[k]).raised /\ sql_term(artwork_ids[k]).value = r[KeyIndex]}

\* SELECT id, description, short_description
DescriptionIndex ==
  [name \in {"id", "description", "short_description"} |->
     CHOOSE j \in 1..Len(schema_columns) : schema_columns[j].name = name]

\* `description or ''`
or_empty(value) == IF Truthy(value) THEN value ELSE JStr("")

\* Variant: the value of the column as it is.
description_entry_plain(row) ==
  [description |-> from_sql(row[DescriptionIndex["description"]]),
   short_description |-> from_sql(row[DescriptionIndex["short_description"]])]

\* descriptions[artwork_id] = {'description': ..., 'short_description': ...}
description_entry(row) ==
  [description |-> or_empty(from_sql(row[DescriptionIndex["description"]])),
   short_description |-> or_empty(from_sql(row[DescriptionIndex["short_description"]]))]

\* get_artwork_descriptions(db_path, artwork_ids)
get_artwork_descriptions(table, artwork_ids) ==
  IF \E k \in 1..Len(artwork_ids) : sql_term(artwork_ids[k]).raised
  THEN Raised("OperationalError")
  ELSE Returned(
         [key \in {from_sql(r[KeyIndex]) : r \in DescribedRows(table, artwork_ids)} |->
            description_entry(CHOOSE r \in DescribedRows(table, artwork_ids) :
                                from_sql(r[KeyIndex]) = key)])

\* The artwork with the pair of description keys set.
WithDescriptions(artwork, description, short_description) ==
  WithField(WithField(artwork, "description", description),
            "short_description", short_description)

\* One iteration of the loop of update_collection_json.
updated_artwork(artwork, descriptions) ==
  IF DictGet(artwork, "id") \in DOMAIN descriptions
  THEN WithDescriptions(artwork, descriptions[DictGet(artwork, "id")].description,
                        descriptions[DictGet(artwork, "id")].short_description)
  ELSE WithDescriptions(artwork, JStr(""), JStr(""))

\* collection_data after the loop.
updated_collection(collection_data, descriptions) ==
  IF "artworks" \notin DOMAIN collection_data.v THEN collection_data
  ELSE WithField(collection_data, "artworks",
         JList([k \in 1..Len(collection_data.v["artworks"].v) |->
                  updated_artwork(collection_data.v["artworks"].v[k], descriptions)]))

\* updated_count after the loop.
updated_count(collection_data, descriptions) ==
  Cardinality({k \in 1..Len(DictGetOr(collection_data, "artworks", JList(<<>>)).v) :
     DictGet(collection_data.v["artworks"].v[k], "id") \in DOMAIN descriptions})

\* Stores a builder leaves: empty, one with descriptions, and one with an
\* artwork that has none.
DescribeStores ==
  {{},
   TableAfter("complete", {},
              <<File(DocDescribed), File(DocHalfDescribed), File(DocNumbered)>>, 3),
   TableAfter("fixed", {}, <<File(DocDescribed), File(DocCatalogued)>>, 2)}

\* Artworks of a collection file; 9 is in no store, and the last three have
\* a text for an id or none.
CollectionArtworks ==
  {JObj([id |-> JInt(42), title |-> JStr("Study in Blue")]),
   JObj([id |-> JInt(27), title |-> JStr("Water Lilies"),
         description |-> JStr("A pond."), artist |-> JStr("Claude Monet")]),
   JObj([id |-> JInt(1), short_description |-> JStr("old")]),
   JObj([id |-> JInt(9), title |-> JStr("Lost"), description |-> JStr("kept?")]),
   JObj([id |-> JStr("42"), title |-> JStr("Study in Blue")]),
   JObj([id |-> JStr("abc")]),
   JObj([title |-> JStr("Untitled")])}

MaxCollectionLen == 2

\* A collection of the application with the artworks of `f`.
Collection(f) ==
  JObj([collection_id |-> JStr("golden_age_1850s"), artwork_count |-> JInt(Len(f)),
        artworks |-> JList(f)])

Collections ==
  {Collection(Tuple(f)) :
     f \in UNION {[1..n -> CollectionArtworks] : n \in 0..MaxCollectionLen}}
    \cup {JObj([collection_id |-> JStr("golden_age_1850s")])}

\* A path of the list without a file.
NoFile == "missing"

\* The files at the paths main lists: one or two paths, each a file with the
\* text of a collection or no file.
CollectionPaths ==
  {<<json_dumps(c)>> : c \in Collections}
    \cup {<<first, json_dumps(c)>> :
            first \in {NoFile, json_dumps(Collection(<<DocDescribed>>))},
            c \in Collections}

DescribeInit ==
  /\ env = EnvOk
  /\ builder = "complete"
  /\ artwork_files = <<>>
  /\ NotStarted
  /\ OffExcept("describe")
  /\ describe \in {[DescribeOff EXCEPT !.stage = "start", !.db_exists = TRUE,
                                       !.store = table, !.files = files,
                                       !.before = files] :
                     table \in DescribeStores, files \in CollectionPaths}
                   \cup {[DescribeOff EXCEPT !.stage = "start",
                                             !.files = files, !.before = files] :
                           files \in {<<json_dumps(Collection(<<DocDescribed>>))>>}}

\* Lines 70-74: `if not os.path.exists(db_path): sys.exit(1)`.
CheckDatabase ==
  /\ describe.stage = "start"
  /\ describe' = [describe EXCEPT !.stage = IF describe.db_exists THEN "main" ELSE "exit"]
  /\ UNCHANGED describe_rest

\* The file at the path the loop of main is at.
CollectionText == describe.files[describe.position]

\* [artwork['id'] for artwork in collection_data.get('artworks', [])]
ids_of(collection_data) ==
  IF \E k \in 1..Len(DictGetOr(collection_data, "artworks", JList(<<>>)).v) :
       "id" \notin DOMAIN collection_data.v["artworks"].v[k].v
  THEN Raised("KeyError")
  ELSE Returned([k \in 1..Len(DictGetOr(collection_data, "artworks", JList(<<>>)).v) |->
                   collection_data.v["artworks"].v[k].v["id"]] \o <<>>)

\* Lines 90-105: a missing file and a collection without artworks are
\* skipped; a KeyError ends the script.
ReadArtworkIds ==
  /\ describe.stage = "main"
  /\ describe.position <= Len(describe.files)
  /\ LET artwork_ids == ids_of(json_loads(CollectionText).value)
     IN describe' =
          IF CollectionText = NoFile
          THEN [describe EXCEPT !.position = describe.position + 1]
          ELSE IF artwork_ids.raised
          THEN [describe EXCEPT !.stage = "raised"]
          ELSE IF artwork_ids.value = <<>>
          THEN [describe EXCEPT !.position = describe.position + 1]
          ELSE [describe EXCEPT !.stage = "query", !.artwork_ids = artwork_ids.value]
  /\ UNCHANGED describe_rest

\* descriptions = get_artwork_descriptions(db_path, artwork_ids)
GetDescriptions ==
  /\ describe.stage = "query"
  /\ describe' =
       IF get_artwork_descriptions(describe.store, describe.artwork_ids).raised
       THEN [describe EXCEPT !.stage = "raised"]
       ELSE [describe EXCEPT
               !.stage = "update",
               !.descriptions =
                  get_artwork_descriptions(describe.store, describe.artwork_ids).value]
  /\ UNCHANGED describe_rest

\* updated_count = update_collection_json(collection_path, descriptions):
\* the file is read, every artwork is given the two keys, and the file is
\* written back; total_updated += updated_count.
UpdateCollectionJson ==
  /\ describe.stage = "update"
  /\ LET collection_data == json_loads(CollectionText).value
     IN describe' =
          [describe EXCEPT
             !.stage = "main",
             !.position = describe.position + 1,
             !.files[describe.position] =
                json_dumps(updated_collection(collection_data, describe.descriptions)),
             !.updated_count = updated_count(collection_data, describe.descriptions),
             !.total_updated =
                describe.total_updated
                  + updated_count(collection_data, describe.descriptions)]
  /\ UNCHANGED describe_rest

\* Line 114: the loop of main is over.
ReportTotal ==
  /\ describe.stage = "main"
  /\ describe.position > Len(describe.files)
  /\ describe' = [describe EXCEPT !.stage = "done"]
  /\ UNCHANGED describe_rest

DescribeNext ==
  \/ CheckDatabase
  \/ ReadArtworkIds
  \/ GetDescriptions
  \/ UpdateCollectionJson
  \/ ReportTotal

DescribeSpec == DescribeInit /\ [][DescribeNext]_vars

(***************************************************************************)
(* Scripts/met_department_explorer.py: the department sampler and the      *)
(* pauses it makes between its requests to the Met API.  Time is counted   *)
(* in seconds of sleep.                                                    *)
(***************************************************************************)
api_delay == 3
max_samples_per_dept == 5
SampleLimit == 20
DownloadPause == 1
DepartmentPause == 5

\* What a request of safe_api_call meets: a 200 response with a JSON body, a
\* 200 response whose body is no JSON, another status, or an exception of
\* requests.get.
Responses == {"json", "no_json", "status", "exception"}

\* Variant: no pause after a response with another status.
safe_api_call_sleep_on_success(response) ==
  CASE response = "json" -> api_delay
    [] response = "no_json" -> api_delay + api_delay * 2
    [] response = "status" -> 0
    [] response = "exception" -> api_delay * 2

\* The seconds safe_api_call sleeps before it returns.
safe_api_call_sleep(response) ==
  CASE response = "json" -> api_delay
    [] response = "no_json" -> api_delay + api_delay * 2
    [] response = "status" -> api_delay * 2
    [] response = "exception" -> api_delay * 2

\* safe_api_call returns the body, and None on every other path.
safe_api_call_returns(response) == response = "json"

MaxDepartments == 2
MaxObjects == 7

\* len(search_results['objectIDs']): up to MaxObjects, and more than the
\* sampler looks at.
ObjectCounts == 0..MaxObjects \cup {SampleLimit + 5}

\* The body of a search: a list of n object ids, no key objectIDs, or null
\* for the list (search_results['objectIDs'][:20] raises TypeError).
SearchBodies == {"ids", "no_key", "null_ids"}

\* The body of an object: without primaryImage, with an image whose download
\* succeeds or fails, or with a null title (artwork.get('title')[:50] raises
\* TypeError).
ObjectBodies == {"no_image", "saved", "not_saved", "null_title"}

SamplerInit ==
  /\ env = EnvOk
  /\ builder = "complete"
  /\ artwork_files = <<>>
  /\ NotStarted
  /\ OffExcept("sampler")
  /\ sampler = [SamplerOff EXCEPT !.stage = "departments"]

\* A request to the Met API is sent: the sleep since the one before is the
\* gap between the two.
Requested(s) ==
  [s EXCEPT !.requests = IF s.requests < 2 THEN s.requests + 1 ELSE 2,
            !.gap = s.since, !.since = 0]

Slept(s, seconds) == [s EXCEPT !.since = s.since + seconds]

\* Lines 166-169: the pause before the next department, but after the last.
NextDepartment(s) ==
  [Slept(s, IF s.department # MaxDepartments THEN DepartmentPause ELSE 0)
     EXCEPT !.department = s.department + 1, !.stage = "departments"]

\* Lines 174-176: an exception of sample_department.
FailedDepartment(s) ==
  [Slept(s, api_delay * 2) EXCEPT !.department = s.department + 1,
                                  !.stage = "departments"]

\* Lines 79-98: the search of a department, up to the loop over its objects.
SearchDepartment(response, body, count) ==
  /\ sampler.stage = "departments"
  /\ sampler.department <= MaxDepartments
  /\ sampler' =
       LET s == Slept(Requested(sampler), safe_api_call_sleep(response))
       IN IF ~safe_api_call_returns(response) \/ body = "no_key"
          THEN NextDepartment(s)
          ELSE IF body = "null_ids" THEN FailedDepartment(s)
          ELSE [s EXCEPT !.stage = "objects",
                         !.object_ids = IF count > SampleLimit THEN SampleLimit ELSE count,
                         !.i = 1, !.downloaded = 0]
  /\ UNCHANGED sampler_rest

\* Lines 99-147: one iteration of the loop over object_ids.
CheckObject(response, body) ==
  /\ sampler.stage = "objects"
  /\ sampler.i <= sampler.object_ids
  /\ sampler.downloaded < max_samples_per_dept
  /\ sampler' =
       LET s == Slept(Requested(sampler), safe_api_call_sleep(response))
       IN IF ~safe_api_call_returns(response) \/ body = "no_image"
          THEN [s EXCEPT !.i = s.i + 1]
          ELSE IF body = "null_title" THEN FailedDepartment(s)
          ELSE [Slept(s, DownloadPause) EXCEPT
                  !.i = s.i + 1,
                  !.downloaded = IF body = "saved" THEN s.downloaded + 1
                                 ELSE s.downloaded]
  /\ UNCHANGED sampler_rest

\* Lines 100-101 and 149-150: the loop ends and the count is returned.
ReturnDownloaded ==
  /\ sampler.stage = "objects"
  /\ sampler.i > sampler.object_ids \/ sampler.downloaded >= max_samples_per_dept
  /\ sampler' = [NextDepartment(sampler) EXCEPT
                   !.total_downloaded = sampler.total_downloaded + sampler.downloaded]
  /\ UNCHANGED sampler_rest

\* Lines 171-173: KeyboardInterrupt ends the sampling.
InterruptSampling ==
  /\ sampler.stage \in {"departments", "objects"}
  /\ sampler.department <= MaxDepartments
  /\ sampler' = [sampler EXCEPT !.stage = "interrupted"]
  /\ UNCHANGED sampler_rest

\* Lines 178-180: every department was sampled.
SamplingComplete ==
  /\ sampler.stage = "departments"
  /\ sampler.department > MaxDepartments
  /\ sampler' = [sampler EXCEPT !.stage = "complete"]
  /\ UNCHANGED sampler_rest

SamplerNext ==
  \/ \E response \in Responses, body \in SearchBodies, count \in ObjectCounts :
       SearchDepartment(response, body, count)
  \/ \E response \in Responses, body \in ObjectBodies : CheckObject(response, body)
  \/ ReturnDownloaded
  \/ InterruptSampling
  \/ SamplingComplete

SamplerSpec == SamplerInit /\ [][SamplerNext]_vars

(***************************************************************************)
(* main.py and chicago_artwall.py: a session of downloads into the         *)
(* wallpaper folder.  ArtWallManager ("met") and ChicagoArtWallManager     *)
(* ("chicago") differ in their settings and in the requests an artwork     *)
(* costs.                                                                  *)
(***************************************************************************)
Managers == {"met", "chicago"}

daily_target == 48
batch_size == 20
met_max_api_calls_per_session == 200
chicago_max_api_calls_per_session == 100
met_ids_per_artwork == 20
chicago_ids_per_artwork == 10
max_runs == 5

\* settings['max_api_calls_per_session']
max_api_calls_per_session(manager) ==
  IF manager = "met" THEN met_max_api_calls_per_session
  ELSE chicago_max_api_calls_per_session

Min(a, b) == IF a <= b THEN a ELSE b

\* max_to_check = min(settings['max_api_calls_per_session'], actual_count * 20)
max_to_check(manager, actual_count) ==
  Min(max_api_calls_per_session(manager),
      actual_count * (IF manager = "met" THEN met_ids_per_artwork
                      ELSE chicago_ids_per_artwork))

\* The bound of `if checked >= ...: break`: max_to_check in main.py, the
\* setting itself in chicago_artwall.py.
checked_limit(manager, actual_count) ==
  IF manager = "met" THEN max_to_check(manager, actual_count)
  ELSE max_api_calls_per_session(manager)

\* What one artwork of the list does to an iteration of the loop.
\*   met: the object cannot be fetched (requests.get raises), is unsuitable
\*   (or not found), its image cannot be accessed (HEAD), is of poor quality
\*   (HEAD and GET), or passes and is downloaded;
\*   chicago: the artwork is of another department or unsuitable, has null
\*   for a text field (AttributeError), or passes and is downloaded.
\* A download is refused (no 200 response, or an exception before the file
\* is opened), interrupted after the file was opened, written to a new file,
\* or rewritten over the file of the same name.
DownloadKinds == {"refused", "interrupted", "written", "rewritten"}
ArtworkKinds(manager) ==
  IF manager = "met"
  THEN {"failed", "unsuitable", "inaccessible", "poor"} \cup DownloadKinds
  ELSE {"unsuitable", "malformed"} \cup DownloadKinds

\* The requests an iteration sends: get_artwork_details, the HEAD and the
\* GET of check_image_quality, and the GET of download_image.
requests_for(manager, kind) ==
  IF manager = "met"
  THEN CASE kind \in {"failed", "unsuitable"} -> 1
         [] kind = "inaccessible" -> 2
         [] kind = "poor" -> 3
         [] OTHER -> 4
  ELSE IF kind \in DownloadKinds THEN 1 ELSE 0

\* The iteration ends with an exception that fetch_artworks does not catch.
raises_for(kind) == kind \in {"failed", "malformed"}

\* download_image returns a path.
download_image(kind) == kind \in {"written", "rewritten"}

\* The files of the folder after the iteration: open(filepath, 'wb') makes a
\* file for a finished and for an interrupted download.
size_after(size, kind) ==
  IF kind \in {"written", "interrupted"} THEN size + 1 ELSE size

\* The first n artworks of a list of runs.
RECURSIVE Take(_, _)
Take(listing, n) ==
  IF n <= 0 \/ listing = <<>> THEN <<>>
  ELSE IF Head(listing).copies <= n
  THEN <<Head(listing)>> \o Take(Tail(listing), n - Head(listing).copies)
  ELSE <<Copies(Head(listing).doc, n)>>

\* The list without its first artwork.
Rest(listing) ==
  IF Head(listing).copies > 1
  THEN <<Copies(Head(listing).doc, Head(listing).copies - 1)>> \o Tail(listing)
  ELSE Tail(listing)

MaxCatalogue == 2
MaxCalls == 2

\* What the search of the museum's API answers: a list of artworks (in the
\* order the manager visits them after random.sample or random.shuffle), no
\* 200 response, or no response at all.
Answered(artworks) == [search |-> "answered", artworks |-> artworks]
SearchRefused == [search |-> "refused", artworks |-> <<>>]
SearchUnreachable == [search |-> "unreachable", artworks |-> <<>>]

\* Lists long enough for the limits of a session.
LongCatalogues(manager) ==
  IF manager = "met"
  THEN {<<Copies("refused", 50)>>, <<Copies("unsuitable", 200)>>,
        <<Copies("written", batch_size + 5)>>}
  ELSE {<<Copies("refused", 100)>>, <<Copies("unsuitable", 120)>>,
        <<Copies("written", batch_size + 5)>>}

AnswersOf(manager) ==
  {Answered(Tuple(f)) :
     f \in UNION {[1..n -> {File(kind) : kind \in ArtworkKinds(manager)}] :
                    n \in 0..MaxCatalogue}}
    \cup {Answered(c) : c \in LongCatalogues(manager)}
    \cup {SearchRefused, SearchUnreachable}

MetCatalogues == AnswersOf("met")
ChicagoCatalogues == AnswersOf("chicago")
Catalogues(manager) == IF manager = "met" THEN MetCatalogues ELSE ChicagoCatalogues

\* The images in the folder before the session.
StartSizes == {0, daily_target - 2, daily_target - 1, daily_target, daily_target + 1}

\* fetch_artworks(count) is called with the default and with a count of one.
Counts == {1, batch_size}

\* The scripts: main.py calls fetch_artworks, chicago_artwall.py calls
\* run_complete_collection; fetch_artworks of either manager is also called
\* on its own, up to MaxCalls times.
Sessions ==
  {[manager |-> "met", mode |-> "fetch"], [manager |-> "chicago", mode |-> "fetch"],
   [manager |-> "chicago", mode |-> "collection"]}

SessionInit ==
  /\ env = EnvOk
  /\ builder = "complete"
  /\ artwork_files = <<>>
  /\ NotStarted
  /\ OffExcept("session")
  /\ session \in {[SessionOff EXCEPT
                     !.stage = IF which.mode = "fetch" THEN "idle" ELSE "while",
                     !.manager = which.manager, !.mode = which.mode,
                     !.size = size, !.start_size = size] :
                    which \in Sessions, size \in StartSizes}

\* The variables of fetch_artworks before a call.
NoCall(s) ==
  [s EXCEPT !.artworks = <<>>, !.count = 0, !.current = 0, !.actual_count = 0,
            !.downloaded = 0, !.checked = 0, !.requests = 0, !.result = 0]

\* Variant: the runs go on after one that downloaded nothing.
stops_after_never(downloaded) == FALSE

\* chicago_artwall.py lines 314-316: `if downloaded == 0: break`.
stops_after(downloaded) == downloaded = 0

\* chicago_artwall.py line 301: `while run_count < max_runs`.
keeps_running(run_count) == run_count < max_runs

\* fetch_artworks returns `downloaded`: to its caller, or into the loop of
\* run_complete_collection (lines 312-333), which ends after a run without a
\* download and returns the size of the folder.
Returning(s, downloaded) ==
  IF s.mode = "fetch"
  THEN [s EXCEPT !.stage = "idle", !.result = downloaded, !.calls = s.calls + 1]
  ELSE IF stops_after(downloaded)
  THEN [NoCall(s) EXCEPT !.stage = "returned", !.result = s.size,
                         !.runs = Append(s.runs, downloaded > 0)]
  ELSE [NoCall(s) EXCEPT !.stage = "while", !.run_count = s.run_count + 1,
                         !.runs = Append(s.runs, downloaded > 0)]

\* fetch_artworks(count) up to its loop: the early returns for a complete
\* collection and for an empty list, and the one request of the search.
Entered(s, count, answer) ==
  LET actual_count == Min(count, daily_target - s.size)
      artworks == Take(answer.artworks, max_to_check(s.manager, actual_count))
      called == [NoCall(s) EXCEPT !.count = count, !.current = s.size]
      searched == [called EXCEPT !.actual_count = actual_count, !.requests = 1]
  IN IF s.size >= daily_target THEN Returning(called, 0)
     ELSE IF answer.search = "unreachable" /\ s.manager = "met"
     THEN [searched EXCEPT !.stage = "raised"]
     ELSE IF artworks = <<>> THEN Returning(searched, 0)
     ELSE [searched EXCEPT !.stage = "loop", !.artworks = artworks]

\* A call of fetch_artworks on its own.
CallFetch ==
  /\ session.mode = "fetch"
  /\ session.stage = "idle"
  /\ session.calls < MaxCalls
  /\ \E count \in Counts, answer \in Catalogues(session.manager) :
       session' = Entered(session, count, answer)
  /\ UNCHANGED session_rest

\* chicago_artwall.py lines 301-312: the collection is not complete and
\* another run starts.
StartRun ==
  /\ session.mode = "collection"
  /\ session.stage = "while"
  /\ keeps_running(session.run_count)
  /\ session.size < daily_target
  /\ \E answer \in Catalogues(session.manager) :
       session' = Entered(session, batch_size, answer)
  /\ UNCHANGED session_rest

\* chicago_artwall.py lines 301-306 and 325-333: the loop ends at max_runs or
\* at a complete collection, and the size of the folder is returned.
ReturnCollection ==
  /\ session.mode = "collection"
  /\ session.stage = "while"
  /\ ~keeps_running(session.run_count) \/ session.size >= daily_target
  /\ session' = [session EXCEPT !.stage = "returned", !.result = session.size]
  /\ UNCHANGED session_rest

\* The loop of fetch_artworks goes on: neither `downloaded >= actual_count`
\* nor `checked >= ...` breaks it.
Continues(s) ==
  /\ s.artworks # <<>>
  /\ s.downloaded < s.actual_count
  /\ s.checked < checked_limit(s.manager, s.actual_count)

\* One iteration of the loop of fetch_artworks.
FetchArtwork ==
  /\ session.stage = "loop"
  /\ Continues(session)
  /\ LET kind == Head(session.artworks).doc
         sent == [session EXCEPT
                    !.checked = session.checked + 1,
                    !.requests = session.requests + requests_for(session.manager, kind)]
     IN session' =
          IF raises_for(kind) THEN [sent EXCEPT !.stage = "raised"]
          ELSE [sent EXCEPT
                  !.artworks = Rest(session.artworks),
                  !.size = size_after(session.size, kind),
                  !.downloaded = IF download_image(kind) THEN session.downloaded + 1
                                 ELSE session.downloaded]
  /\ UNCHANGED session_rest

\* The loop is over and fetch_artworks returns.
FinishFetch ==
  /\ session.stage = "loop"
  /\ ~Continues(session)
  /\ session' = Returning(session, session.downloaded)
  /\ UNCHANGED session_rest

SessionNext ==
  \/ CallFetch
  \/ StartRun
  \/ ReturnCollection
  \/ FetchArtwork
  \/ FinishFetch

SessionSpec == SessionInit /\ [][SessionNext]_vars

\* chicago_artwall.py as a script: main calls run_complete_collection, and
\* every step that can be taken is taken.
CollectionInit == SessionInit /\ session.mode = "collection"

CollectionNext ==
  \/ StartRun
  \/ ReturnCollection
  \/ FetchArtwork
  \/ FinishFetch

CollectionSpec == CollectionInit /\ [][CollectionNext]_vars /\ WF_vars(CollectionNext)

(***************************************************************************)
(* Vocabulary of the properties.                                           *)
(***************************************************************************)
IsMapping(file) == file.t = "obj"

\* A file is malformed when it cannot be parsed or is no mapping.
Malformed(file) == file.t # "obj"

RECURSIVE MalformedFiles(_)
MalformedFiles(listing) ==
  IF listing = <<>> THEN 0
  ELSE (IF Malformed(Head(listing).doc) THEN Head(listing).copies ELSE 0)
       + MalformedFiles(Tail(listing))

\* The listings with the same files in another order.
Reorderings(listing) ==
  {[i \in 1..Len(listing) |-> listing[p[i]]] : p \in Permutations(1..Len(listing))}

Keys(table) == {r[KeyIndex] : r \in table}

\* The source path of each column that is read from a nested object; every
\* other column is read from the top-level key of its own name.
NestedSource ==
  [color_h |-> <<"color", "h">>, color_l |-> <<"color", "l">>,
   color_s |-> <<"color", "s">>, color_percentage |-> <<"color", "percentage">>,
   color_population |-> <<"color", "population">>,
   thumbnail_lqip |-> <<"thumbnail", "lqip">>,
   thumbnail_width |-> <<"thumbnail", "width">>,
   thumbnail_height |-> <<"thumbnail", "height">>,
   thumbnail_alt_text |-> <<"thumbnail", "alt_text">>]

NestedColumns(key) == {c \in DOMAIN NestedSource : NestedSource[c][1] = key}

\* The value at a nested path; no value when the parent is no object.
ValueAtPath(doc, path) ==
  IF DictGet(doc, path[1]).t = "obj" THEN DictGet(DictGet(doc, path[1]), path[2])
  ELSE PyNone

\* The value a column is to hold for a document: the value at the column's
\* own source path, as JSON text for the multi-valued columns.
SourceValue(doc, name) ==
  IF name \in DOMAIN NestedSource THEN ValueAtPath(doc, NestedSource[name])
  ELSE DictGet(doc, name)

Serialized(name, value) ==
  IF name \in json_text_columns /\ value # PyNone THEN JStr(json_dumps(value))
  ELSE value

ExpectedParameters ==
  [doc \in {d \in Docs : IsMapping(d)} |->
     Tuple([i \in 1..Len(schema_columns) |->
       Serialized(schema_columns[i].name, SourceValue(doc, schema_columns[i].name))])]

ColumnIndex ==
  [name \in DOMAIN NestedSource \cup {"id"} |->
     CHOOSE j \in 1..Len(schema_columns) : schema_columns[j].name = name]

\* The columns whose source a document omits (or holds as null).
OmittedColumns ==
  [doc \in {d \in Docs : IsMapping(d)} |->
     {j \in 1..Len(schema_columns) : SourceValue(doc, schema_columns[j].name) = PyNone}]

\* What each column stores of the value expected in it.
StoredForm(j, value) ==
  IF Bindable(value)
  THEN apply_affinity(ColumnAffinity(schema_columns[j].type), bind_parameter(value))
  ELSE [t |-> "unbindable", v |-> 0]

ExpectedRow ==
  [doc \in {d \in Docs : IsMapping(d)} |->
     Tuple([j \in 1..Len(schema_columns) |-> StoredForm(j, ExpectedParameters[doc][j])])]

\* The statement of a builder names the columns of the schema, in order.
StatementAligned ==
  [b \in Builders |->
     /\ Len(StatementColumns(b)) = NumPlaceholders
     /\ Len(schema_columns) = NumPlaceholders
     /\ \A i \in 1..NumPlaceholders : StatementColumns(b)[i] = schema_columns[i].name]

\* The latest iteration: what it handed to execute, the row it prepared, the
\* key the row was written under and the rows of the table under that key.
LastParameters == Prepared[builder][last.file].parameters
LastPrepared == Prepared[builder][last.file].row
WrittenKey(row, before) ==
  IF row[KeyIndex].t = "NULL" THEN SqlInteger(NextRowid(before)) ELSE row[KeyIndex]
LastKey == WrittenKey(LastPrepared.value, last.before)
LastRows == {r \in conn : r[KeyIndex] = LastKey}
Iterated == last.outcome # "none"
Processed == last.outcome = "processed"

(***************************************************************************)
(* Properties.                                                             *)
(***************************************************************************)
\* C1: a second build over the same unchanged directory, on the store the
\* first build left, leaves the artworks table row-for-row as it was after
\* the first build.
C1_IdempotentIngestion ==
  (pc = "done" /\ run = 2 /\ kept_store /\ ~crashed) => disk = first_table

\* C2: the table after a build is the same for every order in which the
\* files of the directory are iterated.
C2_OrderIndependence ==
  (pc = "done" /\ run = 1) =>
     \A listing \in Reorderings(artwork_files) :
        TableAfter(builder, {}, listing, TotalFiles(listing)) = disk

\* C3: when a document with key X is upserted while a row with key X exists,
\* the table afterwards has exactly one row with key X, that row is the row
\* of the new document, every column the new document omits is NULL in it,
\* and no row was added.
C3_FullReplace ==
  (Processed /\ LastKey \in Keys(last.before)) =>
     /\ Cardinality(LastRows) = 1
     /\ \A r \in LastRows :
          /\ r = [LastPrepared.value EXCEPT ![KeyIndex] = LastKey]
          /\ \A j \in OmittedColumns[last.file] \ {KeyIndex} : r[j] = SqlNull
     /\ Keys(conn) = Keys(last.before)
     /\ Cardinality(conn) = Cardinality(last.before)

\* C3 witness: a row that held a value in some column was replaced by the
\* row of a document that omits that column.
C3_Witness ==
  /\ Processed
  /\ \E old \in last.before : \E j \in OmittedColumns[last.file] \ {KeyIndex} :
       old[KeyIndex] = LastKey /\ old[j] # SqlNull

\* C4: after a build of N files into an empty store of which k are malformed
\* (unparseable or no mapping), processed = N - k, errors = k, and the table
\* has a row for every document that is not malformed.
HasRowFor(doc, table) ==
  IF DictGet(doc, "id") # PyNone
  THEN /\ Bindable(DictGet(doc, "id"))
       /\ apply_affinity("INTEGER", bind_parameter(DictGet(doc, "id"))) \in Keys(table)
  ELSE \E r \in table :
         \A j \in 1..Len(schema_columns) \ {KeyIndex} : r[j] = ExpectedRow[doc][j]

C4_PartialFailureContainment ==
  (pc = "done" /\ run = 1) =>
     /\ processed = TotalFiles(artwork_files) - MalformedFiles(artwork_files)
     /\ errors = MalformedFiles(artwork_files)
     /\ \A i \in 1..Len(artwork_files) :
          IsMapping(artwork_files[i].doc) => HasRowFor(artwork_files[i].doc, disk)

\* C5: when the first build is terminated, the committed table is the table
\* after the files iterated up to the latest commit; and a complete build
\* over the same directory afterwards, on the store the terminated build
\* left, ends with the table an uninterrupted build ends with.
C5_CrashSafeResume ==
  /\ (pc = "crashed" /\ run = 1) =>
        disk = TableAfter(builder, {}, artwork_files, committed_files)
  /\ (pc = "done" /\ run = 2 /\ crashed /\ kept_store) =>
        disk = TableAfter(builder, {}, artwork_files, TotalFiles(artwork_files))

\* C6: process_artworks commits each time the processed counter reaches a
\* positive multiple of ProgressEvery, so fewer than ProgressEvery upserts
\* are ever uncommitted between iterations, and it commits once more after
\* the last file, whatever is left uncommitted.
C6_CommitCadence ==
  /\ uncommitted <= ProgressEvery
  /\ pc = "loop" =>
       /\ commits = processed \div ProgressEvery
       /\ uncommitted = processed % ProgressEvery
       /\ (Processed /\ processed % ProgressEvery = 0) =>
             (disk = conn /\ committed_files = processed + errors)
  /\ pc \in {"committed", "done"} =>
       /\ commits = (processed \div ProgressEvery) + 1
       /\ uncommitted = 0
       /\ disk = conn

\* C6 witness: a build whose periodic commit was made and whose final commit
\* found nothing left to commit.
C6_Witness ==
  /\ pc = "committed"
  /\ processed = ProgressEvery
  /\ commits = 2
  /\ disk # {}

\* C7: a document without id still gets its full row of parameters, and its
\* upsert either fails or collides with an existing row: it adds no row
\* under a key the store generated.
C7_MissingIdentity ==
  (Iterated /\ IsMapping(last.file) /\ DictGet(last.file, "id") = PyNone
     /\ ~LastParameters.raised) =>
     /\ Len(LastParameters.value) = NumPlaceholders
     /\ \/ last.outcome = "error"
        \/ Keys(conn) = Keys(last.before)

\* C8: building the parameters of a parsed document fails only when the
\* document is no mapping, whatever the types of its fields.
C8_NormalizationTotal ==
  (Iterated /\ last.file # Garbage) =>
     (LastParameters.raised <=> ~IsMapping(last.file))

\* C9: for a document whose color (thumbnail) is absent or null, every
\* parameter and every stored column read from it is no value (NULL), and
\* the absence is no error: the document is processed whenever it is
\* processed with a well-formed color (thumbnail) object in that place.
C9_NestedAbsence ==
  Iterated =>
    \A key \in NestedKeys :
      (IsMapping(last.file) /\ DictGet(last.file, key) = PyNone) =>
         /\ ~LastParameters.raised =>
              \A c \in NestedColumns(key) :
                 LastParameters.value[ColumnIndex[c]] = PyNone
         /\ Processed =>
              \A r \in LastRows : \A c \in NestedColumns(key) :
                 r[ColumnIndex[c]] = SqlNull
         /\ ~Prepared[builder][WithField(last.file, key, SampleNested(key))].row.raised
              => Processed

\* C9 witness: a processed document whose color is null and another nested
\* key absent or null as well.
C9_Witness ==
  /\ Processed
  /\ "color" \in DOMAIN last.file.v
  /\ last.file.v["color"] = PyNone
  /\ LastRows # {}

\* C10: the parameters of a document are NumPlaceholders values in column
\* order, each the value at its column's own source path (JSON text for the
\* multi-valued columns), a present falsy value as itself; and the row
\* written holds a value in every column whose source holds one.
C10_ColumnAlignment ==
  (Iterated /\ ~LastParameters.raised) =>
     /\ Len(LastParameters.value) = NumPlaceholders
     /\ StatementAligned[builder]
     /\ LastParameters.value = ExpectedParameters[last.file]
     /\ Processed =>
          \A r \in LastRows :
             r = [ExpectedRow[last.file] EXCEPT ![KeyIndex] = LastKey]

\* C10 witness: a processed document with falsy values (false, 0, "", [])
\* at the top level and inside a nested object.
C10_Witness ==
  /\ Processed
  /\ DictGet(last.file, "is_boosted") = JBool(FALSE)
  /\ DictGet(last.file, "boost_rank") = JInt(0)
  /\ DictGet(last.file, "title") = JStr("")
  /\ DictGet(last.file, "alt_titles") = JList(<<>>)
  /\ ValueAtPath(last.file, <<"thumbnail", "width">>) = JInt(0)
  /\ \E r \in LastRows : r[ColumnIndex["thumbnail_width"]] = SqlInteger(0)

\* The top-level columns whose key a document does not have, and the
\* multi-valued columns for which it holds an empty sequence.
AbsentColumns ==
  [doc \in {d \in Docs : IsMapping(d)} |->
     {j \in 1..Len(schema_columns) :
        /\ schema_columns[j].name \notin DOMAIN NestedSource
        /\ schema_columns[j].name \notin DOMAIN doc.v}]

EmptySequenceColumns ==
  [doc \in {d \in Docs : IsMapping(d)} |->
     {j \in 1..Len(schema_columns) :
        /\ schema_columns[j].name \in json_text_columns
        /\ DictGet(doc, schema_columns[j].name) = JList(<<>>)}]

\* C11: in the row stored for a processed document, every top-level column
\* whose key the document lacks is NULL, and every multi-valued column for
\* which it holds the empty sequence is the text "[]".
C11_AbsenceMapping ==
  Processed =>
    \A r \in LastRows :
      /\ \A j \in AbsentColumns[last.file] :
           LastParameters.value[j] = PyNone /\ r[j] = SqlNull
      /\ \A j \in EmptySequenceColumns[last.file] :
           LastParameters.value[j] = JStr("[]") /\ r[j] = SqlText("[]")

\* A sequence of strings and integers.
IsFlatSequence(value) ==
  /\ value.t = "list"
  /\ \A i \in 1..Len(value.v) : value.v[i].t \in {"str", "int"}

\* A call returned this value.
Gives(result, value) == ~result.raised /\ result.value = value

\* C12: for every sequence v of strings and integers, decoding the text
\* safe_json_dumps(v) stores gives v again: the same elements in the same
\* order.
C12_RoundTrip ==
  (codec.stage \in {"text", "stored", "decoded"} /\ IsFlatSequence(codec.value)) =>
     /\ codec.text.t = "str"
     /\ Gives(json_loads(codec.text.v), codec.value)
     /\ codec.stage = "stored" => codec.stored = SqlText(codec.text.v)
     /\ codec.stage = "decoded" => Gives(codec.decoded, codec.value)

\* C12 witness: a sequence with a repeated element and a string that holds
\* a quote was stored and decoded.
C12_Witness ==
  /\ codec.stage = "decoded"
  /\ codec.value = JList(<<JStr("a\"b"), JInt(7), JStr("a\"b")>>)
  /\ codec.stored = SqlText("[\"a\\\"b\", 7, \"a\\\"b\"]")
  /\ Gives(codec.decoded, codec.value)

\* C20: when json.dumps cannot serialize a value, safe_json_dumps returns
\* str(value) instead of raising, and that text is bound and stored like any
\* other, so the statement of the document is not rejected for it.
C20_NonSerializableFallback ==
  (codec.stage \in {"text", "stored", "rejected", "decoded"}
     /\ ~Serializable(codec.value)) =>
     /\ codec.text = JStr(py_str(codec.value))
     /\ codec.stage # "rejected"
     /\ codec.stage \in {"stored", "decoded"} =>
          codec.stored = SqlText(py_str(codec.value))

\* C20 witness: a list that holds a set was stored as the text of its str().
C20_Witness ==
  /\ codec.stage = "stored"
  /\ codec.value = JList(<<JInt(1), PySet(<<JInt(2)>>)>>)
  /\ codec.text = JStr("[1, {2}]")
  /\ codec.stored = SqlText("[1, {2}]")

\* The file of the iteration about to run, and whether the store rejects
\* the row built for it.
NextFile == artwork_files[group].doc

StoreRejectsNext ==
  /\ pc = "loop"
  /\ group <= Len(artwork_files)
  /\ ~Prepared[builder][NextFile].parameters.raised
  /\ Prepared[builder][NextFile].row.raised

\* C13: an iteration whose upsert the store rejects adds one to errors and
\* nothing to processed, leaves the rows of the connection (committed or
\* not) and the committed table as they were, and leaves the loop running
\* at the next file.
C13_StoreWriteFailure ==
  [][(StoreRejectsNext /\ ProcessFile) =>
       /\ errors' = errors + 1
       /\ processed' = processed
       /\ conn' = conn
       /\ disk' = disk
       /\ uncommitted' = uncommitted
       /\ pc' = "loop"
       /\ last'.outcome = "error"
       /\ <<group', copy'>> # <<group, copy>>]_vars

\* C13 witness: the store rejected a row while the table held rows of an
\* earlier periodic commit and an uncommitted row of another document.
C13_Witness ==
  /\ pc = "loop"
  /\ last.outcome = "error"
  /\ ~LastParameters.raised
  /\ LastPrepared.raised
  /\ disk # {}
  /\ uncommitted > 0
  /\ conn = last.before
  /\ conn # disk

\* C14: in one run no more than ErrorDetailLimit errors are logged in
\* detail.
C14_BoundedErrorDetail == logged <= ErrorDetailLimit

\* The files of the listing before its entry number g.
RECURSIVE FilesBefore(_, _)
FilesBefore(listing, g) ==
  IF g <= 1 \/ listing = <<>> THEN 0
  ELSE Head(listing).copies + FilesBefore(Tail(listing), g - 1)

\* C15: in a run that is not terminated each iteration takes the next file
\* of the listing, so that every file is visited once; the loop is always
\* followed by the final commit and report; and then processed + errors is
\* the number of files listed.
C15_BatchCompletion ==
  /\ [](pc = "loop" =>
          processed + errors = FilesBefore(artwork_files, group) + copy)
  /\ [](pc \in {"committed", "done"} =>
          /\ processed + errors = TotalFiles(artwork_files)
          /\ commits >= 1)
  /\ (pc = "loop") ~> (pc = "committed")

\* C15 witness: the final commit of a directory with valid and failing
\* documents.
C15_Witness ==
  /\ pc = "committed"
  /\ processed > 0
  /\ errors > 1
  /\ processed + errors = TotalFiles(artwork_files)

\* C16: a run aborts exactly when json_dir or the database file cannot be
\* opened: with either of them unopenable no run gets past its start, and
\* a run with both openable is never aborted.
C16_AbortPolicy ==
  /\ pc = "aborted" => ~(env.json_dir /\ env.db)
  /\ ~(env.json_dir /\ env.db) => pc \in {"idle", "aborted"}

\* The store is dropped: main of the fixed builder removes the file.
StoreDropped == \E entry \in {"main", "build_database"} :
  StartBuild(entry) /\ RemovesDatabase(builder, entry)

\* C17: an iteration leaves every row of the table as it was, but for the
\* row whose key is the id of the document it processed; no step of a build
\* takes a key out of the table; and a key leaves the committed table only
\* when the store is dropped.
C17_IngestionFrame ==
  [][/\ ProcessFile =>
          \A r \in conn :
             \/ r \in conn'
             \/ /\ last'.outcome = "processed"
                /\ DictGet(last'.file, "id") # PyNone
                /\ r[KeyIndex] = ExpectedRow[last'.file][KeyIndex]
     /\ (ProcessFile \/ FinalCommit \/ FinishBuild) => Keys(conn) \subseteq Keys(conn')
     /\ StoreDropped \/ Keys(disk) \subseteq Keys(disk')]_vars

\* C17 witness: a document was processed into a table that held its id and
\* another one: its own row was replaced, the other row is there unchanged.
C17_Witness ==
  /\ Processed
  /\ \E old \in last.before : old[KeyIndex] = LastKey /\ old \notin conn
  /\ \E r \in last.before : r[KeyIndex] # LastKey /\ r \in conn

\* The value a row holds in the column `name`, as Python reads it.
ColumnAt(row, name) ==
  from_sql(row[CHOOSE j \in 1..Len(schema_columns) : schema_columns[j].name = name])

\* The rows of a table whose key is the artwork id.
RowsOf(table, artwork_id) == {r \in table : r[KeyIndex] = SqlInteger(artwork_id.v)}

\* The ids a manifest refers to.
Referenced == {enrich.artwork_ids[k] : k \in 1..Len(enrich.artwork_ids)}

\* The occurrences of x in a sequence.
CountIn(seq, x) == Cardinality({k \in 1..Len(seq) : seq[k] = x})

\* The ids of the entries of the list `artworks`, in order.
ResolvedIds(artworks) == [k \in 1..Len(artworks) |-> artworks[k].id]

\* C18: build_collection never raises, and in its output every
\* referenced id is in exactly one of the list of resolved artworks and the
\* list of failed downloads, an id that is not in the store is in the
\* failed list, and artwork_count is the length of the resolved list.
C18_EachIdInOneList ==
  /\ enrich.stage # "raised"
  /\ enrich.stage = "built" =>
       /\ enrich.updated_manifest.artwork_count = Len(enrich.updated_manifest.artworks)
       /\ \A x \in Referenced :
            /\ (CountIn(ResolvedIds(enrich.updated_manifest.artworks), x) > 0)
                 # (CountIn(enrich.updated_manifest.failed_downloads, x) > 0)
            /\ RowsOf(enrich.store, x) = {} =>
                 CountIn(enrich.updated_manifest.failed_downloads, x) > 0

\* C19: get_artwork_metadata does not raise and returns an entry for
\* exactly the requested ids that a row of the store has as its key; the
\* entry of an id carries the id and the title, artist display, display
\* date, medium and image identifier of that row.
C19_MetadataLookup ==
  /\ enrich.stage # "raised"
  /\ enrich.stage \in {"loop", "built"} =>
       /\ DOMAIN enrich.artwork_metadata
            = {x \in Referenced : RowsOf(enrich.store, x) # {}}
       /\ \A x \in DOMAIN enrich.artwork_metadata :
            \A r \in RowsOf(enrich.store, x) :
               /\ enrich.artwork_metadata[x].id = x
               /\ enrich.artwork_metadata[x].title = ColumnAt(r, "title")
               /\ enrich.artwork_metadata[x].artist = ColumnAt(r, "artist_display")
               /\ enrich.artwork_metadata[x].date = ColumnAt(r, "date_display")
               /\ enrich.artwork_metadata[x].medium = ColumnAt(r, "medium_display")
               /\ enrich.artwork_metadata[x].image_id = ColumnAt(r, "image_id")

\* C19 witness: of the requested ids 27, 42 and 999 the store holds 27 and
\* 42; the entry of 27 carries the columns of its row, 999 has no entry.
C19_Witness ==
  /\ enrich.stage = "loop"
  /\ Referenced = {JInt(27), JInt(42), JInt(999)}
  /\ DOMAIN enrich.artwork_metadata = {JInt(27), JInt(42)}
  /\ enrich.artwork_metadata[JInt(27)].title = JStr("Water Lilies")
  /\ enrich.artwork_metadata[JInt(27)].artist = JStr("Claude Monet")
  /\ enrich.artwork_metadata[JInt(27)].image_id = JStr("3c27b499")
  /\ enrich.artwork_metadata[JInt(42)].artist = PyNone

\* The elements of a sequence at the positions in S, in the order of the
\* sequence.
RECURSIVE Selected(_, _, _)
Selected(seq, S, k) ==
  IF k > Len(seq) THEN <<>>
  ELSE (IF k \in S THEN <<seq[k]>> ELSE <<>>) \o Selected(seq, S, k + 1)

\* C26: an artwork is in the list of successful artworks, of the collection
\* being built or of one built before, only if its image file was written
\* completely: an id whose download broke part-way is never reported as
\* downloaded.
C26_OnlyCompleteImages ==
  /\ \A k \in 1..Len(enrich.successful_artworks) :
       enrich.successful_artworks[k].id \in enrich.images \ enrich.partial
  /\ \A c \in 1..Len(enrich.built_collections) :
       \A k \in 1..Len(enrich.built_collections[c].artworks) :
          enrich.built_collections[c].artworks[k].id \in enrich.images \ enrich.partial

BuildableIds ==
  Selected([k \in 1..Len(enrich.manifests) |->
              IF "collection_id" \in DOMAIN enrich.manifests[k]
              THEN enrich.manifests[k].collection_id ELSE "none"],
           {k \in 1..Len(enrich.manifests) :
              "collection_id" \in DOMAIN enrich.manifests[k]}, 1)

\* C29: when the master index is made, the collections built are the
\* manifests whose build raised nothing, in order, whatever the others did;
\* total_collections is their number and total_artworks the sum of their
\* artwork_count, which is the running total of the summary.
C29_IsolationAndTotals ==
  enrich.stage = "indexed" =>
    /\ [k \in 1..Len(enrich.built_collections) |->
          enrich.built_collections[k].collection_id] = BuildableIds
    /\ enrich.index.total_collections = Len(enrich.built_collections)
    /\ enrich.index.total_artworks = SumCounts(enrich.built_collections)
    /\ enrich.index.total_artworks = enrich.total_artworks

\* C29 witness: the first of two manifests raised, the second one was built
\* with one artwork and is the only collection of the index.
C29_Witness ==
  /\ enrich.stage = "indexed"
  /\ Len(enrich.manifests) = 2
  /\ "collection_id" \notin DOMAIN enrich.manifests[1]
  /\ enrich.index.total_collections = 1
  /\ enrich.index.total_artworks = 1
  /\ enrich.index.collections[1].id = "golden_age_1860s"

\* The builder that is not `b`.
OtherBuilder(b) == IF b = "complete" THEN "fixed" ELSE "complete"

\* Two results are the same exception or the same value.
SameResult(a, b) ==
  /\ a.raised = b.raised
  /\ a.raised \/ a.value = b.value
  /\ ~a.raised \/ a.value = b.value

\* The files of a listing whose try body raises under the builder b.
RECURSIVE ErrorsOf(_, _)
ErrorsOf(b, listing) ==
  IF listing = <<>> THEN 0
  ELSE (IF Prepared[b][Head(listing).doc].row.raised THEN Head(listing).copies ELSE 0)
       + ErrorsOf(b, Tail(listing))

\* C27: for the document of every iteration the two builders hand the same
\* row to the store, or raise the same exception, so that the table after
\* the iteration is the one the other builder makes of the table before;
\* and when a build into an empty store is complete, its counters, and the
\* table of a directory of up to MaxFiles files, are those the other builder
\* gives for the same directory.
C27_BuilderEquivalence ==
  /\ Iterated =>
       /\ SameResult(Prepared["complete"][last.file].row,
                     Prepared["fixed"][last.file].row)
       /\ pc = "loop" =>
            conn = TableOr(last.before,
                           try_body(OtherBuilder(builder), last.before, last.file))
  /\ pc = "done" /\ run = 1 =>
       /\ errors = ErrorsOf(OtherBuilder(builder), artwork_files)
       /\ processed = TotalFiles(artwork_files)
                        - ErrorsOf(OtherBuilder(builder), artwork_files)
       /\ TotalFiles(artwork_files) <= MaxFiles =>
            disk = TableAfter(OtherBuilder(builder), {}, artwork_files,
                              TotalFiles(artwork_files))

\* C27 witness: the fixed builder completed a directory of a document with
\* a null color and falsy thumbnail fields and a document it cannot store.
C27_Witness ==
  /\ pc = "done"
  /\ run = 1
  /\ builder = "fixed"
  /\ artwork_files = <<File(DocFalsy), File(DocThumbnailText)>>
  /\ processed = 1
  /\ errors = 1
  /\ disk # {}


\* Every artwork of every collection file has a description that is not
\* empty after stripping.
AllDescribed ==
  \A k \in 1..Len(cover.collection_files) :
    /\ cover.collection_files[k].t = "obj"
    /\ LET artworks == DictGetOr(cover.collection_files[k], "artworks", JList(<<>>)).v
       IN \A a \in 1..Len(artworks) : Gives(has_description(artworks[a]), TRUE)

\* A collection file cannot be read or parsed.
SomeUnreadable ==
  \E k \in 1..Len(cover.collection_files) : json_load(cover.collection_files[k]).raised

\* C21: test_description_coverage returns True exactly when every artwork
\* of every collection file has a description that is not empty after
\* stripping; during the scan total_with_descriptions +
\* total_empty_descriptions = total_artworks; and with a collection file
\* that cannot be read or parsed the test does not report success.
C21_DescriptionCoverage ==
  /\ cover.total_with_descriptions + cover.total_empty_descriptions
       = cover.total_artworks
  /\ cover.stage = "done" /\ cover.collection_files # <<>> =>
       /\ cover.result <=> AllDescribed
       /\ SomeUnreadable => ~cover.result


\* The artwork's id is the key of a row of the store.
InStore(table, artwork) ==
  /\ "id" \in DOMAIN artwork.v
  /\ artwork.v["id"].t = "int"
  /\ RowsOf(table, artwork.v["id"]) # {}

\* The text the store holds for the artwork in the column `name`, the empty
\* text for NULL and for an artwork that is not in the store.
StoreText(table, artwork, name) ==
  IF ~InStore(table, artwork) THEN JStr("")
  ELSE LET value == ColumnAt(CHOOSE r \in RowsOf(table, artwork.v["id"]) : TRUE, name)
       IN IF value = PyNone THEN JStr("") ELSE value

DescriptionKeys == {"description", "short_description"}

\* The collection `new` is `old` with the descriptions of the store.
Described(table, old, new) ==
  /\ DOMAIN new.v = DOMAIN old.v
  /\ \A key \in DOMAIN old.v \ {"artworks"} : new.v[key] = old.v[key]
  /\ Len(new.v["artworks"].v) = Len(old.v["artworks"].v)
  /\ \A k \in 1..Len(old.v["artworks"].v) :
       LET was == old.v["artworks"].v[k]
           is == new.v["artworks"].v[k]
       IN /\ DOMAIN is.v = DOMAIN was.v \cup DescriptionKeys
          /\ \A key \in DOMAIN was.v \ DescriptionKeys : is.v[key] = was.v[key]
          /\ \A key \in DescriptionKeys : is.v[key] = StoreText(table, was, key)

\* C30: update_collection_json leaves every artwork of the collection with
\* the keys description and short_description, holding the text of the
\* store for an id found there with a value and the empty text otherwise;
\* updated_count is the number of artworks whose id is in the store; no
\* artwork is added, removed or reordered and no other field changes.
C30_DescriptionEffect ==
  [][describe.stage = "update" =>
       LET old == json_loads(CollectionText).value
           new == json_loads(describe'.files[describe.position]).value
       IN /\ Described(describe.store, old, new)
          /\ describe'.updated_count =
               Cardinality({k \in 1..Len(old.v["artworks"].v) :
                              InStore(describe.store, old.v["artworks"].v[k])})
          /\ \A k \in 1..Len(describe.files) :
               k # describe.position => describe'.files[k] = describe.files[k]]_vars

\* A collection was rewritten with an artwork of the store and one that is
\* not in it, and the store holds no description for one that it has.
C30_Witness ==
  /\ describe.stage = "done"
  /\ \E k \in 1..Len(describe.files) :
       /\ describe.files[k] # describe.before[k]
       /\ \E a, b \in 1..Len(json_loads(describe.before[k]).value.v["artworks"].v) :
            LET artworks == json_loads(describe.before[k]).value.v["artworks"].v
            IN /\ InStore(describe.store, artworks[a])
               /\ ColumnAt(CHOOSE r \in RowsOf(describe.store, artworks[a].v["id"]) : TRUE,
                           "description") = PyNone
               /\ ~InStore(describe.store, artworks[b])
               /\ "description" \in DOMAIN artworks[b].v
  /\ describe.updated_count = 1


\* C22: between two consecutive requests of the department sampler to the
\* Met API (a department search or an object-detail call) the sampler has
\* slept api_delay seconds or more, whatever the first request met.
C22_MetApiPoliteness ==
  sampler.requests >= 2 => sampler.gap >= api_delay

\* A request was sent after one that was answered with another status, and
\* after no more sleep than safe_api_call made.
C22_Witness ==
  /\ sampler.stage = "objects"
  /\ sampler.requests >= 2
  /\ sampler.gap = api_delay * 2
  /\ sampler.i > 2


\* C23: a call of fetch_artworks sends no more requests (the search, the
\* object-detail calls, the HEAD and GET of the quality check and the
\* downloads together) than settings['max_api_calls_per_session'].
C23_SessionRequestCap ==
  session.requests <= max_api_calls_per_session(session.manager)


\* C24: with no more than daily_target images in the folder at the start,
\* the folder never holds more than daily_target images; a call downloads
\* no more than min(count, daily_target - current) images; and a call that
\* finds current >= daily_target sends no request and returns 0.
C24_CollectionSizeBound ==
  /\ session.start_size <= daily_target => session.size <= daily_target
  /\ session.current <= daily_target =>
       session.downloaded <= Min(session.count, daily_target - session.current)
  /\ session.requests > 0 => session.current < daily_target
  /\ session.mode = "fetch" /\ session.calls > 0 /\ session.stage = "idle"
       /\ session.current >= daily_target => session.result = 0

\* run_complete_collection has returned or was left by an exception.
CollectionOver == session.stage \in {"returned", "raised"}

\* The runs of run_complete_collection so far: no more than max_runs, none
\* after a run that downloaded nothing, none started with a complete
\* collection; and the value returned is the size of the folder.
BoundedRuns ==
  session.mode = "collection" =>
    /\ Len(session.runs) <= max_runs
    /\ \A k \in 1..Len(session.runs) - 1 : session.runs[k]
    /\ session.stage = "loop" =>
         /\ session.current < daily_target
         /\ \A k \in 1..Len(session.runs) : session.runs[k]
    /\ session.stage = "returned" => session.result = session.size

====
